---------------------------- MODULE Spec2Model ----------------------------
(***************************************************************************)
(* Model of the folder-based task lifecycle engine of Personal-AI-Employee *)
(* (Bronze Tier):                                                          *)
(*   - scripts/filesystem_watcher.py : main, FileSystemWatcher,            *)
(*     FileDropHandler (the DropDetector)                                  *)
(*   - scripts/orchestrator.py       : Orchestrator (supervisor, scanner,  *)
(*     agent trigger, orchestration loop)                                  *)
(*                                                                         *)
(* Paths are sequences of components; a file name is the sequence of its   *)
(* characters, the timestamp in a name being kept as one element.  Time    *)
(* is counted in ticks of one debounce delay (0.5 s); a wall-clock second  *)
(* is two ticks.                                                           *)
(***************************************************************************)
EXTENDS Naturals, Integers, Sequences, FiniteSets, TLC

(***************************************************************************)
(* Bounds of the model.                                                    *)
(***************************************************************************)
MaxFiles == 2
MaxContent == 2
MaxClock == 3
MaxCycles == 2
MaxCalls == 3

(***************************************************************************)
(* Program constants.                                                      *)
(***************************************************************************)
\* time.sleep(0.5): the debounce delay is the unit of time of the model.
DebounceTicks == 1

\* signal.SIGINT, signal.SIGTERM, and signal.SIGKILL, sent by Popen.kill()
SIGINT == 2
SIGTERM == 15
SIGKILL == 9

\* --interval: default=30
DefaultInterval == 30

\* The intervals a run is given: the default and a negative one.
Intervals == {DefaultInterval, -1}

None == "None"

DefaultVault == "AI_Employee_Vault"
OtherVault == "V"
Vaults == {DefaultVault, OtherVault}

WatcherScript == "filesystem_watcher.py"

\* vault / folder
Folder(vault, folder) == <<vault, folder>>

\* The directory below the watched directory that events may bubble from.
SubDir(dir) == dir \o <<"sub">>

(***************************************************************************)
(* File names.                                                             *)
(***************************************************************************)
\* Two names that differ only in a space and an underscore, and the hidden
\* and temporary names of the filter.
OrdinaryNames == { <<"a", " ", "b", ".", "t", "x", "t">>,
                   <<"a", "_", "b", ".", "t", "x", "t">> }
\* A file the watcher has no permission to read.
UnreadableNames == { <<"l", "o", "c", "k", "e", "d", ".", "b", "i", "n">> }
HiddenNames == { <<".", "h", "i", "d", "d", "e", "n">>,
                 <<"~", "t", "m", "p">> }
SubdirNames == { <<"c", ".", "t", "x", "t">> }
DirectoryNames == { <<"s", "u", "b">> }

\* str.startswith on the first character of the name
StartsWith(name, ch) == Len(name) >= 1 /\ name[1] = ch

\* source.name.replace(' ', '_').replace('.', '_')
SafeName(name) ==
  [i \in DOMAIN name |-> IF name[i] \in {" ", "."} THEN "_" ELSE name[i]]

\* datetime.now().strftime('%Y%m%d_%H%M%S'): the wall clock cut to seconds
Timestamp(t) == ToString(t \div (2 * DebounceTicks))

\* f'FILE_DROP_{safe_name}_{timestamp}.md'
ActionFilename(name, t) ==
  <<"F", "I", "L", "E", "_", "D", "R", "O", "P", "_">>
    \o SafeName(name) \o <<"_", Timestamp(t), ".", "m", "d">>

\* f'{source.name}_{timestamp}'
CopyFilename(name, t) == name \o <<"_", Timestamp(t)>>

\* Path.suffix: i = name.rfind('.'); name[i:] when the last "." is neither the
\* first nor the last character of the name, else the empty string. The
\* suffix keeps its "." and everything after it.
Suffix(name) ==
  LET dots == {i \in DOMAIN name : name[i] = "."}
  IN  IF dots = {} THEN <<>>
      ELSE LET last == CHOOSE i \in dots : \A j \in dots : j <= i
           IN  IF last > 1 /\ last < Len(name)
               THEN SubSeq(name, last, Len(name))
               ELSE <<>>

\* str.lower() of one character
LowerChar(ch) ==
  CASE ch = "A" -> "a" [] ch = "B" -> "b" [] ch = "C" -> "c" [] ch = "D" -> "d"
    [] ch = "E" -> "e" [] ch = "F" -> "f" [] ch = "G" -> "g" [] ch = "H" -> "h"
    [] ch = "I" -> "i" [] ch = "J" -> "j" [] ch = "K" -> "k" [] ch = "L" -> "l"
    [] ch = "M" -> "m" [] ch = "N" -> "n" [] ch = "O" -> "o" [] ch = "P" -> "p"
    [] ch = "Q" -> "q" [] ch = "R" -> "r" [] ch = "S" -> "s" [] ch = "T" -> "t"
    [] ch = "U" -> "u" [] ch = "V" -> "v" [] ch = "W" -> "w" [] ch = "X" -> "x"
    [] ch = "Y" -> "y" [] ch = "Z" -> "z"
    [] OTHER -> ch

\* str.lower()
Lower(name) == [i \in DOMAIN name |-> LowerChar(name[i])]

TextExtensions ==
  { <<".", "t", "x", "t">>,
    <<".", "m", "d">>,
    <<".", "c", "s", "v">>,
    <<".", "j", "s", "o", "n">>,
    <<".", "x", "m", "l">>,
    <<".", "y", "a", "m", "l">>,
    <<".", "y", "m", "l">>,
    <<".", "l", "o", "g">> }

(***************************************************************************)
(* The file system below the vault's Inbox: path -> file.  Content 0 is    *)
(* the empty content of a file that was created and not filled yet.        *)
(***************************************************************************)
Contents == 0 .. MaxContent
FilePath(dir, name) == [parent |-> dir, name |-> name]

VARIABLES
  now,              \* wall clock, in ticks
  fs,               \* files of the drop directories: path -> file
  nCreated,         \* number of files and directories created so far
  wArgv,            \* sys.argv of the watcher process
  wPc,              \* watcher process: "main", "config_error",
                    \* "mkdir_drop", "mkdir_needs", "run", "started",
                    \* "watching", "stopping", "exited", "terminated",
                    \* "interrupted"
  vault_path,       \* FileSystemWatcher.vault_path
  drop_path,        \* FileSystemWatcher.drop_path
  events,           \* creation events queued for the handler
  hPc,              \* handler thread: "idle", "hashing", "sleeping",
                    \* "slept", "stamped", "statted", "written",
                    \* "copied", "dead"
  hSource,          \* on_created: source
  file_hash,        \* on_created: file_hash
  hAction,          \* _create_action_file: timestamp and content
  processed_files,  \* FileDropHandler.processed_files
  needs_action,     \* <vault>/Needs_Action: file name -> file
  logged,           \* last message of the handler's logger
  written,          \* history: the record writes that have completed, in
                    \* their order
  ioFault           \* history: a write into Needs_Action has failed

dropVars == <<now, fs, nCreated, wArgv, wPc, vault_path, drop_path, events,
              hPc, hSource, file_hash, hAction, processed_files, needs_action, logged,
              written, ioFault>>

\* Needs_Action is written by the watcher and read by the orchestrator.
dropOnlyVars == <<now, fs, nCreated, wArgv, wPc, vault_path, drop_path,
                  events, hPc, hSource, file_hash, hAction, processed_files, logged,
                  written, ioFault>>

VARIABLES
  check_interval,   \* Orchestrator.check_interval
  driver,           \* who drives the Orchestrator object: "run" (run() in
                    \* the main thread), "thread" (run() in another
                    \* thread), "api" or "boot"
  orchPc,           \* position of the orchestrator's thread
  running,          \* Orchestrator.running
  handlers,         \* the signals run() has registered its handler for
  watcher_process,  \* Orchestrator.watcher_process
  procs,            \* the watcher processes spawned so far
  agentsRunning,    \* agent processes spawned and not terminated
  approved,         \* <vault>/Approved: file names
  logs,             \* <vault>/Logs: day -> entries of <day>.md
  today,            \* the calendar day
  pending_tasks,    \* run_cycle: pending_tasks
  approved_actions, \* run_cycle: approved_actions
  result,           \* run: the value being returned
  exitCode,         \* exit status of the orchestrator process
  cycles,           \* number of cycles begun
  nCalls,           \* number of calls made by the driver of the object
  lastOutcome,      \* history: how the last call that can fail has ended
                    \* ("none": no such call yet in the run or the cycle)
  stopOutcome       \* how the last stop_watcher() ended

orchVars == <<check_interval, driver, orchPc, running, handlers, watcher_process, procs,
              agentsRunning, approved, logs, today,
              pending_tasks, approved_actions, result, exitCode, cycles,
              nCalls, lastOutcome, stopOutcome>>

VARIABLES
  dirs,             \* the directories that exist, as paths
  others,           \* stage folder -> file names, for the stages no code reads
  orchVault,        \* Orchestrator.vault_path
  wExit             \* exit status of the watcher process

bootVars == <<dirs, others, orchVault, wExit>>

vars == <<dropVars, orchVars, bootVars>>

(***************************************************************************)
(* FileDropHandler._get_file_hash                                          *)
(***************************************************************************)
Md5(content) == <<"md5", content>>
\* str(st_mtime): the modification time at its full resolution, the tick
\* and what lies below it
MtimeStr(t, s) == <<"mtime", t, s>>
Raised == <<"raised">>
NoHash == <<"none">>

\* Two modification times of one tick are the same or not.
SubTicks == {0, 1}

Fingerprints ==
  {Md5(c) : c \in Contents}
    \cup {MtimeStr(t, s) : t \in 0 .. MaxClock, s \in SubTicks}

Exists(files, path) == path \in DOMAIN files

\* with open(file_path, 'rb') as f: -- the file can be opened and read.
CanOpen(files, path) ==
  Exists(files, path) /\ ~files[path].isdir /\ files[path].readable

\* _get_file_hash of a file that stays as it is during the call: the md5 of
\* its content, else str(st_mtime), else the error of stat().
GetFileHash(files, path) ==
  IF CanOpen(files, path)
  THEN Md5(files[path].content)
  ELSE IF Exists(files, path)
       THEN MtimeStr(files[path].mtime, files[path].stamp)
       ELSE Raised


(***************************************************************************)
(* filesystem_watcher.main and FileSystemWatcher.__init__                  *)
(***************************************************************************)
\* orchestrator.start_watcher: the command line (after the interpreter)
StartWatcherArgv(vault) == <<WatcherScript, vault>>

MainVaultArg(argv) == IF Len(argv) >= 2 THEN argv[2] ELSE DefaultVault

MainDropArg(argv) ==
  IF Len(argv) >= 3 THEN argv[3] ELSE Folder(DefaultVault, "Inbox")

\* No drop folder given (None, or the empty string).
NoDrop == <<>>

InitDropPath(vault, drop) ==
  IF drop # NoDrop THEN drop ELSE Folder(vault, "Inbox")

\* The ways a watcher process is started: by the orchestrator of a vault,
\* or by hand the same way: the vault is the only argument.
LaunchArgvs == {StartWatcherArgv(v) : v \in Vaults}

\* The directory the user of the launched watcher drops files into: the
\* drop folder given, else the Inbox of the vault given, else of the default.
IntendedDrop(argv) ==
  IF Len(argv) >= 3 THEN argv[3]
  ELSE Folder(IF Len(argv) >= 2 THEN argv[2] ELSE DefaultVault, "Inbox")

\* The path of a vault.
Root(vault) == <<vault>>

\* Mutant: the vault is taken to exist.
VaultAssumed(existing, vault) == TRUE

\* self.vault_path.exists()
VaultExists(existing, vault) == Root(vault) \in existing

\* Path.mkdir(parents=True, exist_ok=True): the directory and every missing
\* parent is created; what exists is left alone.
Mkdir(existing, path) ==
  existing \cup {SubSeq(path, 1, k) : k \in 1 .. Len(path)}

\* One mkdir(2) of Path.mkdir(parents=True, exist_ok=True): the first
\* directory on the way to path that is missing is created; when path is
\* there nothing is.
MkdirCall(existing, path) ==
  LET missing == {k \in 1 .. Len(path) : SubSeq(path, 1, k) \notin existing}
  IN  IF missing = {}
      THEN existing
      ELSE existing
             \cup {SubSeq(path, 1, CHOOSE k \in missing :
                                     \A j \in missing : k <= j)}

\* The frame of the steps of the watcher's main thread.
WatcherStartFrame ==
  /\ UNCHANGED orchVars
  /\ UNCHANGED <<others, orchVault>>
  /\ UNCHANGED <<now, fs, nCreated, wArgv, events, hPc, hSource, file_hash, hAction,
                 processed_files, needs_action, logged, written, ioFault>>

\* main and FileSystemWatcher.__init__ up to the check of the vault: on a
\* missing vault __init__ raises ValueError, which main catches and logs as
\* a configuration error.
WatcherMain ==
  /\ wPc = "main"
  /\ IF VaultExists(dirs, MainVaultArg(wArgv))
     THEN /\ vault_path' = MainVaultArg(wArgv)
          /\ drop_path' = InitDropPath(MainVaultArg(wArgv), MainDropArg(wArgv))
          /\ wPc' = "mkdir_drop"
     ELSE /\ wPc' = "config_error"
          /\ UNCHANGED <<vault_path, drop_path>>
  /\ UNCHANGED <<dirs, wExit>>
  /\ WatcherStartFrame

\* sys.exit(1) after the configuration error.
WatcherConfigExit ==
  /\ wPc = "config_error"
  /\ wPc' = "exited"
  /\ wExit' = 1
  /\ UNCHANGED <<vault_path, drop_path, dirs>>
  /\ WatcherStartFrame

\* self.drop_path.mkdir(parents=True, exist_ok=True), one mkdir(2) a step:
\* a missing parent is created before the folder itself.
WatcherMkdirDrop ==
  /\ wPc = "mkdir_drop"
  /\ dirs' = MkdirCall(dirs, drop_path)
  /\ wPc' = IF drop_path \in dirs' THEN "mkdir_needs" ELSE "mkdir_drop"
  /\ UNCHANGED <<vault_path, drop_path, wExit>>
  /\ WatcherStartFrame

\* needs_action.mkdir(parents=True, exist_ok=True), one mkdir(2) a step
WatcherMkdirNeeds ==
  /\ wPc = "mkdir_needs"
  /\ dirs' = MkdirCall(dirs, Folder(vault_path, "Needs_Action"))
  /\ wPc' = IF Folder(vault_path, "Needs_Action") \in dirs'
            THEN "run"
            ELSE "mkdir_needs"
  /\ UNCHANGED <<vault_path, drop_path, wExit>>
  /\ WatcherStartFrame

\* run(): the handler is scheduled and the observer started; from here on
\* creations in the drop folder are reported.
WatcherRun ==
  /\ wPc = "run"
  /\ wPc' = "started"
  /\ UNCHANGED <<vault_path, drop_path, dirs, wExit>>
  /\ WatcherStartFrame

\* run() enters its try block and sleeps in the loop.
WatcherLoop ==
  /\ wPc = "started"
  /\ wPc' = "watching"
  /\ UNCHANGED <<vault_path, drop_path, dirs, wExit>>
  /\ WatcherStartFrame

\* The observer reports creations; the handler thread runs.
Observing == {"started", "watching"}
Handling == {"started", "watching", "stopping"}

(***************************************************************************)
(* Orchestrator._ensure_folders and the vaults the processes run on.       *)
(***************************************************************************)
\* _ensure_folders: folders
StageFolders ==
  <<"Inbox", "Needs_Action", "Done", "Pending_Approval", "Approved",
    "Rejected", "Plans", "Logs", "Briefings">>

\* The stages whose files neither process reads or writes.
OtherStages == {"Done", "Pending_Approval", "Rejected"}

\* for folder in folders: (self.vault_path / folder).mkdir(...)
RECURSIVE MkdirAll(_, _, _)
MkdirAll(existing, vault, folders) ==
  IF folders = <<>>
  THEN existing
  ELSE MkdirAll(Mkdir(existing, Folder(vault, Head(folders))), vault,
                Tail(folders))

EnsureFolders(existing, vault) == MkdirAll(existing, vault, StageFolders)

\* Mutant: the last folder of the list is left out.
EnsureAllButLast(existing, vault, i) ==
  IF i = Len(StageFolders)
  THEN existing
  ELSE Mkdir(existing, Folder(vault, StageFolders[i]))

\* One turn of the loop of _ensure_folders: the i-th folder is created.
EnsureFolder(existing, vault, i) ==
  Mkdir(existing, Folder(vault, StageFolders[i]))

\* The positions of the orchestrator before the mkdir of each folder.
EnsurePcs ==
  <<"mkdir_Inbox", "mkdir_Needs_Action", "mkdir_Done",
    "mkdir_Pending_Approval", "mkdir_Approved", "mkdir_Rejected",
    "mkdir_Plans", "mkdir_Logs", "mkdir_Briefings">>

EnsureIndex(pc) == CHOOSE i \in DOMAIN EnsurePcs : EnsurePcs[i] = pc

\* A vault with all its stage folders.
FullVault(vault) == EnsureFolders({Root(vault)}, vault)

\* The processes run on vaults that exist and are fully laid out.
VaultsReady ==
  /\ dirs = FullVault(DefaultVault) \cup FullVault(OtherVault)
  /\ others = [f \in OtherStages |-> {}]
  /\ orchVault = DefaultVault
  /\ wExit = -1

(***************************************************************************)
(* The writers of the drop directory, and the observer that queues one     *)
(* creation event per created entry.                                       *)
(***************************************************************************)
\* observer.schedule(..., recursive=False): only entries created in the
\* watched directory itself are reported.
Observed(dir) == dir = drop_path

\* A file has its modification time as mtime, in ticks, and stamp, the part
\* below the tick; stamp is kept for the files that cannot be read, whose
\* fingerprint is str(st_mtime), and is 0 for the others.
\* The parts below the tick t that modification times have had so far, as
\* far as a file or a fingerprint still holds them.
UsedStamps(t) ==
  {fs[p].stamp :
     p \in {q \in DOMAIN fs : fs[q].mtime = t /\ ~fs[q].readable}}
    \cup {s \in SubTicks : MtimeStr(t, s) \in processed_files \cup {file_hash}}

\* Modification times are numbered within their tick in the order of their
\* first use: a new one is one already used, or the next unused one.
NextStamps(t) ==
  {s \in SubTicks : s = 0 \/ s - 1 \in UsedStamps(t)}

\* except: return str(file_path.stat().st_mtime) -- what line 51 can give.
\* A file that can be read is met here only when it was created after the
\* open of line 48 had failed; the part of its modification time below the
\* tick shows here for the first time.
StatHashes(files, path) ==
  IF CanOpen(files, path)
  THEN {MtimeStr(files[path].mtime, s) : s \in NextStamps(files[path].mtime)}
  ELSE {GetFileHash(files, path)}

CreatedEvent(path, isdir) == [src_path |-> path, is_directory |-> isdir]

Create(dir, name, isdir, readable) ==
  /\ wPc \in Observing
  /\ nCreated < MaxFiles
  /\ ~Exists(fs, FilePath(dir, name))
  /\ \E s \in IF readable THEN {0} ELSE NextStamps(now) :
       fs' = [p \in DOMAIN fs \cup {FilePath(dir, name)} |->
                IF p = FilePath(dir, name)
                THEN [isdir |-> isdir, content |-> 0, mtime |-> now,
                      stamp |-> s, readable |-> readable]
                ELSE fs[p]]
  /\ nCreated' = nCreated + 1
  /\ events' = IF Observed(dir)
               THEN Append(events, CreatedEvent(FilePath(dir, name), isdir))
               ELSE events
  /\ UNCHANGED orchVars
  /\ UNCHANGED bootVars
  /\ UNCHANGED <<now, wArgv, wPc, vault_path, drop_path, hPc, hSource,
                 file_hash, hAction, processed_files, needs_action, logged, written,
                 ioFault>>

CreateFile ==
  \E name \in OrdinaryNames : Create(IntendedDrop(wArgv), name, FALSE, TRUE)

CreateUnreadable ==
  \E name \in UnreadableNames :
    Create(IntendedDrop(wArgv), name, FALSE, FALSE)

CreateHidden ==
  \E name \in HiddenNames : Create(IntendedDrop(wArgv), name, FALSE, TRUE)

CreateInSubdirectory ==
  \E name \in SubdirNames :
    Create(SubDir(IntendedDrop(wArgv)), name, FALSE, TRUE)

CreateDirectory ==
  \E name \in DirectoryNames : Create(IntendedDrop(wArgv), name, TRUE, TRUE)

\* Contents are numbered in the order of their first use: a writer fills a
\* file with a content already used or with the next unused one.
UsedContents ==
  {fs[p].content : p \in DOMAIN fs}
    \cup {c \in Contents : Md5(c) \in processed_files \cup {file_hash}}

FillContents ==
  {c \in 1 .. MaxContent : \E u \in UsedContents \cup {0} : c <= u + 1}

\* The writer fills the file it has created.
Fill ==
  \E p \in DOMAIN fs, c \in FillContents :
    /\ p.parent = IntendedDrop(wArgv)
    /\ p.name \in OrdinaryNames
    /\ fs[p].content = 0
    /\ fs' = [fs EXCEPT ![p].content = c, ![p].mtime = now]
    /\ UNCHANGED orchVars
    /\ UNCHANGED bootVars
    /\ UNCHANGED <<now, nCreated, wArgv, wPc, vault_path, drop_path, events,
                   hPc, hSource, file_hash, hAction, processed_files, needs_action,
                   logged, written, ioFault>>

\* A file is removed while its creation event is queued or being handled.
Pending(p) ==
  \/ \E i \in DOMAIN events : events[i].src_path = p
  \/ hPc \in {"hashing", "sleeping", "slept", "stamped", "statted",
              "written", "copied"}
       /\ hSource = p

Remove ==
  \E p \in DOMAIN fs :
    /\ p.name \in OrdinaryNames \cup UnreadableNames
    /\ Pending(p)
    /\ fs' = [q \in DOMAIN fs \ {p} |-> fs[q]]
    /\ UNCHANGED orchVars
    /\ UNCHANGED bootVars
    /\ UNCHANGED <<now, nCreated, wArgv, wPc, vault_path, drop_path, events,
                   hPc, hSource, file_hash, hAction, processed_files, needs_action,
                   logged, written, ioFault>>

\* Time passes.  time.sleep(0.5) of a handler that sleeps ends with the tick:
\* the debounce delay is DebounceTicks = 1 tick.
Tick ==
  /\ now < MaxClock
  /\ now' = now + 1
  /\ hPc' = IF hPc = "sleeping" THEN "slept" ELSE hPc
  /\ UNCHANGED orchVars
  /\ UNCHANGED bootVars
  /\ UNCHANGED <<fs, nCreated, wArgv, wPc, vault_path, drop_path, events,
                 hSource, file_hash, hAction, processed_files, needs_action, logged,
                 written, ioFault>>

(***************************************************************************)
(* FileDropHandler.on_created, in the steps between which the writer of    *)
(* the drop folder can act and time passes: up to the debounce sleep; the  *)
(* timestamp; the stat of the source; the write of the record; the copy of *)
(* the content of the source; the copy of its times, with the return to    *)
(* on_created.                                                             *)
(***************************************************************************)
\* Mutant: the seen-set is never consulted.
AlreadyProcessedNever(h, seen) == FALSE

AlreadyProcessed(h, seen) == h \in seen

\* Mutant: only temporary files are skipped, hidden ones are not.
IsTemporaryOnly(name) == StartsWith(name, "~")

IsTemporaryOrHidden(name) == StartsWith(name, "~") \/ StartsWith(name, ".")

InSubdirectory(path, drop) == path.parent # drop

Log(kind, path, h) == [kind |-> kind, source |-> path, hash |-> h]

\* on_created from line 140 on, the fingerprint being h: the checks of the
\* seen-set, of the name and of the directory, up to the debounce sleep.
OnCreatedChecks(source, h) ==
  IF AlreadyProcessed(h, processed_files)
  THEN /\ logged' = Log("already_processed", source, h)
       /\ hPc' = "idle"
       /\ UNCHANGED file_hash
  ELSE IF IsTemporaryOrHidden(source.name)
  THEN /\ logged' = Log("skip_hidden", source, h)
       /\ hPc' = "idle"
       /\ UNCHANGED file_hash
  ELSE IF InSubdirectory(source, drop_path)
  THEN /\ logged' = Log("skip_subdirectory", source, h)
       /\ hPc' = "idle"
       /\ UNCHANGED file_hash
  ELSE /\ logged' = Log("new_file", source, h)
       /\ hPc' = "sleeping"
       /\ file_hash' = h

\* on_created up to the open of _get_file_hash (line 48): a file that can be
\* read is hashed and checked; for any other the call goes on at line 51.
OnCreatedBegin ==
  /\ wPc \in Observing
  /\ hPc = "idle"
  /\ events # <<>>
  /\ now + DebounceTicks <= MaxClock
  /\ events' = Tail(events)
  /\ LET e == Head(events)
         source == e.src_path
     IN  IF e.is_directory
         THEN UNCHANGED <<hPc, hSource, file_hash, logged>>
         ELSE /\ hSource' = source
              /\ IF CanOpen(fs, source)
                 THEN OnCreatedChecks(source, GetFileHash(fs, source))
                 ELSE /\ hPc' = "hashing"
                      /\ UNCHANGED <<file_hash, logged>>
  /\ UNCHANGED orchVars
  /\ UNCHANGED bootVars
  /\ UNCHANGED <<now, fs, nCreated, wArgv, wPc, vault_path, drop_path,
                 hAction, processed_files, needs_action, written, ioFault>>

\* _get_file_hash, line 51, the open having failed: the modification time
\* of the file as it is now is the fingerprint; the error of stat() on a
\* file that is gone is caught nowhere and ends the handler thread.
GetFileHashStat ==
  /\ wPc \in Handling
  /\ hPc = "hashing"
  /\ now + DebounceTicks <= MaxClock
  /\ \E h \in StatHashes(fs, hSource) :
       IF h = Raised
       THEN /\ hPc' = "dead"
            /\ logged' = Log("uncaught", hSource, h)
            /\ UNCHANGED file_hash
       ELSE OnCreatedChecks(hSource, h)
  /\ UNCHANGED orchVars
  /\ UNCHANGED bootVars
  /\ UNCHANGED <<now, fs, nCreated, wArgv, wPc, vault_path, drop_path, events,
                 hSource, hAction, processed_files, needs_action, written,
                 ioFault>>

\* The record _create_action_file writes for source at time t.
ActionRecord(files, source, t) ==
  [kind |-> "record", type |-> "file_drop", source_file |-> source.name,
   file_size |-> IF Exists(files, source) THEN files[source].content ELSE 0,
   modified |-> IF Exists(files, source) THEN files[source].mtime ELSE t,
   status |-> "pending", complete |-> TRUE]

\* shutil.copyfile(source, dest_file), the first half of shutil.copy2: the
\* file written at time t has the content of the source and its own
\* modification time.
RawCopy(files, source, t) ==
  [kind |-> "copy", type |-> "raw", source_file |-> source.name,
   file_size |-> files[source].content, modified |-> t,
   status |-> "", complete |-> TRUE]

WriteFile(dir, name, file) ==
  [f \in DOMAIN dir \cup {name} |-> IF f = name THEN file ELSE dir[f]]

\* source.suffix.lower() in text_extensions
IsTextFile(name) == Lower(Suffix(name)) \in TextExtensions

\* action_path.write_text(content): the record is written whole, is cut
\* short (w = "partial") or is not written at all (w = "fail").
WriteRecord(dir, source, action, w) ==
  CASE w = "ok" ->
         WriteFile(dir, ActionFilename(source.name, action.timestamp),
                   action.content)
    [] w = "partial" ->
         WriteFile(dir, ActionFilename(source.name, action.timestamp),
                   [action.content EXCEPT !.complete = FALSE])
    [] OTHER -> dir

\* shutil.copyfile can open the source.
CanCopy(files, source) ==
  Exists(files, source) /\ ~files[source].isdir /\ files[source].readable

\* The ways shutil.copyfile ends: the copy is made, is cut short after its
\* destination was created (c = "partial"), or is not made (c = "fail").
CopyOutcomes(files, source) ==
  IF CanCopy(files, source) THEN {"ok", "partial", "fail"} ELSE {"fail"}

\* shutil.copyfile(source, dest_file) at time at, dest_file being named with
\* the timestamp t of the record
CopySource(dir, files, source, t, c, at) ==
  IF c = "fail"
  THEN dir
  ELSE WriteFile(dir, CopyFilename(source.name, t),
                 [RawCopy(files, source, at) EXCEPT !.complete = (c = "ok")])

\* shutil.copystat(source, dest_file), the second half of shutil.copy2: the
\* copy gets the modification time the source has now; a source that is
\* gone makes it raise and leaves the copy as it is.
CopyStat(dir, files, source, t) ==
  IF Exists(files, source) /\ CopyFilename(source.name, t) \in DOMAIN dir
  THEN [dir EXCEPT ![CopyFilename(source.name, t)].modified =
                      files[source].mtime]
  ELSE dir

\* Mutant: the seen-set keeps only the fingerprint added last.
MarkProcessedOnly(seen, h) == {h}

MarkProcessed(seen, h) == seen \cup {h}

\* Mutant: the fingerprint is added whether or not the record was written.
SeenAfterAnyWrite(seen, h, w) == seen \cup {h}

\* processed_files after the try block of on_created, the record write
\* having ended as w: line 164 is reached only if _create_action_file
\* returned.
SeenAfter(seen, h, w) == IF w = "ok" THEN MarkProcessed(seen, h) ELSE seen

\* The locals of _create_action_file while no event is in it.
NoAction ==
  [timestamp |-> 0, content |-> ActionRecord(<<>>, FilePath(<<>>, <<>>), 0)]

\* A record write that has completed: the fingerprint of its event and the
\* name of the record file.
CompletedWrite(h, name) == [hash |-> h, name |-> name]

\* The sleep has ended; _create_action_file reads the clock for the
\* timestamp of the names (line 59).
OnCreatedTimestamp ==
  /\ wPc \in Handling
  /\ hPc = "slept"
  /\ hAction' = [hAction EXCEPT !.timestamp = now]
  /\ hPc' = "stamped"
  /\ UNCHANGED orchVars
  /\ UNCHANGED bootVars
  /\ UNCHANGED <<now, fs, nCreated, wArgv, wPc, vault_path, drop_path, events,
                 hSource, file_hash, processed_files, needs_action, logged,
                 written, ioFault>>

\* source.stat() (line 66) and the content of the record, built from what
\* the source is now.
OnCreatedStat ==
  /\ wPc \in Handling
  /\ hPc = "stamped"
  /\ hAction' = [hAction EXCEPT !.content = ActionRecord(fs, hSource, now)]
  /\ hPc' = "statted"
  /\ UNCHANGED orchVars
  /\ UNCHANGED bootVars
  /\ UNCHANGED <<now, fs, nCreated, wArgv, wPc, vault_path, drop_path, events,
                 hSource, file_hash, processed_files, needs_action, logged,
                 written, ioFault>>

\* action_path.write_text(content), line 115.  A failure is caught by
\* on_created and logged, line 164 being skipped; after a write that has
\* completed _create_action_file goes on.
OnCreatedWrite ==
  /\ wPc \in Handling
  /\ hPc = "statted"
  /\ \E w \in {"ok", "partial", "fail"} :
       /\ needs_action' = WriteRecord(needs_action, hSource, hAction, w)
       /\ IF w = "ok"
          THEN /\ hPc' = "written"
               /\ written' =
                    Append(written,
                           CompletedWrite(file_hash,
                                          ActionFilename(hSource.name,
                                                         hAction.timestamp)))
               /\ UNCHANGED <<hAction, processed_files, logged, ioFault>>
          ELSE /\ hPc' = "idle"
               /\ hAction' = NoAction
               /\ processed_files' = SeenAfter(processed_files, file_hash, w)
               /\ logged' = Log("error", hSource, file_hash)
               /\ ioFault' = TRUE
               /\ UNCHANGED written
  /\ UNCHANGED orchVars
  /\ UNCHANGED bootVars
  /\ UNCHANGED <<now, fs, nCreated, wArgv, wPc, vault_path, drop_path,
                 events, hSource, file_hash>>

\* _create_action_file returns and on_created ends its try block: the
\* fingerprint is added (line 164) and the success logged.
OnCreatedReturn ==
  /\ processed_files' = SeenAfter(processed_files, file_hash, "ok")
  /\ logged' = Log("success", hSource, file_hash)
  /\ hPc' = "idle"
  /\ hAction' = NoAction

\* The rest of _create_action_file up to the first half of shutil.copy2:
\* the content of the source of a text file is copied, as it is now.  A
\* failure is logged as a warning and _create_action_file returns, as it
\* does at once for a file that is no text file.
OnCreatedCopy ==
  /\ wPc \in Handling
  /\ hPc = "written"
  /\ IF IsTextFile(hSource.name)
     THEN \E c \in CopyOutcomes(fs, hSource) :
            /\ needs_action' =
                 CopySource(needs_action, fs, hSource, hAction.timestamp, c,
                            now)
            /\ IF c = "ok"
               THEN /\ hPc' = "copied"
                    /\ UNCHANGED <<processed_files, logged, hAction>>
               ELSE OnCreatedReturn
     ELSE /\ UNCHANGED needs_action
          /\ OnCreatedReturn
  /\ UNCHANGED orchVars
  /\ UNCHANGED bootVars
  /\ UNCHANGED <<now, fs, nCreated, wArgv, wPc, vault_path, drop_path,
                 events, hSource, file_hash, written, ioFault>>

\* The second half of shutil.copy2: the times of the source, as they are
\* now, are put on the copy; then _create_action_file returns.
OnCreatedCopyStat ==
  /\ wPc \in Handling
  /\ hPc = "copied"
  /\ needs_action' = CopyStat(needs_action, fs, hSource, hAction.timestamp)
  /\ OnCreatedReturn
  /\ UNCHANGED orchVars
  /\ UNCHANGED bootVars
  /\ UNCHANGED <<now, fs, nCreated, wArgv, wPc, vault_path, drop_path,
                 events, hSource, file_hash, written, ioFault>>

(***************************************************************************)
(* The drop detector: one watcher process, its writers and its handler.    *)
(***************************************************************************)
NoPath == FilePath(<<>>, <<>>)

\* self.watcher_process = None
NoProcess == 0

\* datetime.now().strftime('%Y-%m-%d') on the day the orchestrator starts
\* and on the day after
FirstDay == "2026-01-01"
NextDay == "2026-01-02"

\* The fields of an Orchestrator after __init__ and the history of a run
\* that has made no call yet.
OrchConstructed ==
  /\ running = FALSE
  /\ handlers = {}
  /\ watcher_process = NoProcess
  /\ procs = <<>>
  /\ agentsRunning = 0
  /\ approved = {}
  /\ logs = <<>>
  /\ today = FirstDay
  /\ pending_tasks = <<>>
  /\ approved_actions = <<>>
  /\ result = 0
  /\ exitCode = -1
  /\ cycles = 0
  /\ nCalls = 0
  /\ lastOutcome = "none"
  /\ stopOutcome = "none"

Init ==
  /\ driver = "none"
  /\ orchPc = "none"
  /\ check_interval = DefaultInterval
  /\ OrchConstructed
  /\ VaultsReady
  /\ now = 0
  /\ fs = <<>>
  /\ nCreated = 0
  /\ wArgv \in LaunchArgvs
  /\ wPc = "main"
  /\ vault_path = None
  /\ drop_path = NoDrop
  /\ events = <<>>
  /\ hPc = "idle"
  /\ hSource = NoPath
  /\ file_hash = NoHash
  /\ hAction = NoAction
  /\ processed_files = {}
  /\ needs_action = <<>>
  /\ logged = Log("none", NoPath, NoHash)
  /\ written = <<>>
  /\ ioFault = FALSE

Next ==
  \/ WatcherMain
  \/ WatcherMkdirDrop
  \/ WatcherMkdirNeeds
  \/ WatcherRun
  \/ WatcherLoop
  \/ CreateFile
  \/ CreateUnreadable
  \/ CreateHidden
  \/ CreateInSubdirectory
  \/ CreateDirectory
  \/ Fill
  \/ Remove
  \/ Tick
  \/ OnCreatedBegin
  \/ GetFileHashStat
  \/ OnCreatedTimestamp
  \/ OnCreatedStat
  \/ OnCreatedWrite
  \/ OnCreatedCopy
  \/ OnCreatedCopyStat

Spec == Init /\ [][Next]_vars

\* A writer changes the content of a file that has been recorded.  The
\* observer reports a modification, for which FileDropHandler defines no
\* handler: no event reaches on_created.
Rewrite ==
  \E p \in DOMAIN fs, c \in FillContents :
    /\ wPc \in Observing
    /\ p.parent = drop_path
    /\ p.name \in OrdinaryNames
    /\ fs[p].content # 0
    /\ fs[p].content # c
    /\ Md5(fs[p].content) \in processed_files
    /\ ~Pending(p)
    /\ fs' = [fs EXCEPT ![p].content = c, ![p].mtime = now]
    /\ UNCHANGED orchVars
    /\ UNCHANGED bootVars
    /\ UNCHANGED <<now, nCreated, wArgv, wPc, vault_path, drop_path, events,
                   hPc, hSource, file_hash, hAction, processed_files, needs_action,
                   logged, written, ioFault>>

\* The watcher process has not ended.
WatcherAlive == wPc \notin {"exited", "terminated", "interrupted"}

\* A signal ends the watcher process where it stands: before it watches,
\* between two events, or at any point of the handling of an event.  A
\* write_text, a copy of the content or a copy of the times that was going
\* on has come to its end or has been cut short; the handler goes no
\* further.
KilledBy(sig, ended) ==
  /\ wPc' = ended
  /\ wExit' = 0 - sig
  /\ \/ UNCHANGED <<needs_action, written>>
     \/ /\ hPc = "statted"
        /\ \E w \in {"ok", "partial"} :
             /\ needs_action' = WriteRecord(needs_action, hSource, hAction, w)
             /\ written' =
                  IF w = "ok"
                  THEN Append(written,
                              CompletedWrite(file_hash,
                                             ActionFilename(hSource.name,
                                                            hAction.timestamp)))
                  ELSE written
     \/ /\ hPc = "written"
        /\ IsTextFile(hSource.name)
        /\ \E c \in CopyOutcomes(fs, hSource) \ {"fail"} :
             needs_action' =
               CopySource(needs_action, fs, hSource, hAction.timestamp, c,
                          now)
        /\ UNCHANGED written
     \/ /\ hPc = "copied"
        /\ needs_action' =
             CopyStat(needs_action, fs, hSource, hAction.timestamp)
        /\ UNCHANGED written
  /\ UNCHANGED orchVars
  /\ UNCHANGED <<dirs, others, orchVault>>
  /\ UNCHANGED <<now, fs, nCreated, wArgv, vault_path, drop_path, events,
                 hPc, hSource, file_hash, hAction, processed_files, logged,
                 ioFault>>

\* The termination request of stop_watcher, terminate() or kill(), reaches
\* the watcher process, which handles neither signal.
Terminate ==
  /\ WatcherAlive
  /\ \E sig \in {SIGTERM, SIGKILL} : KilledBy(sig, "terminated")

\* SIGINT reaches the watcher.  In the loop of run() KeyboardInterrupt is
\* caught, "Stopping watcher..." is logged and observer.stop() keeps the
\* observer from handing out further events; before the try block and during
\* observer.join() nothing catches it and the process ends.
Interrupt ==
  /\ WatcherAlive
  /\ IF wPc = "watching"
     THEN /\ wPc' = "stopping"
          /\ UNCHANGED orchVars
          /\ UNCHANGED bootVars
          /\ UNCHANGED <<now, fs, nCreated, wArgv, vault_path, drop_path,
                         events, hPc, hSource, file_hash, hAction,
                         processed_files, needs_action, logged, written,
                         ioFault>>
     ELSE KilledBy(SIGINT, "interrupted")

\* observer.join() returns once the handler has finished the event it was
\* in; run() logs "Watcher stopped" and the process ends with status 0.
WatcherExit ==
  /\ wPc = "stopping"
  /\ hPc \in {"idle", "dead"}
  /\ wPc' = "exited"
  /\ wExit' = 0
  /\ UNCHANGED orchVars
  /\ UNCHANGED <<dirs, others, orchVault>>
  /\ UNCHANGED <<now, fs, nCreated, wArgv, vault_path, drop_path, events,
                 hPc, hSource, file_hash, hAction, processed_files, needs_action,
                 logged, written, ioFault>>

NextLife ==
  \/ Next
  \/ Rewrite
  \/ Terminate
  \/ Interrupt
  \/ WatcherExit

\* The watcher process from its start to the end the orchestrator puts to
\* it.
SpecLife == Init /\ [][NextLife]_vars


(***************************************************************************)
(* Orchestrator: supervision of the watcher process                        *)
(* (start_watcher, stop_watcher).                                          *)
(***************************************************************************)
\* The position a call of the Orchestrator object returns to: into run()
\* or to the driver that calls the object's methods.
InRun == driver \in {"run", "thread"}

ReturnTo(inRun) == IF InRun THEN inRun ELSE "api"

\* A process subprocess.Popen has started, with the numbers of the signals
\* sent to it.
NewProcess == [state |-> "running", nTerm |-> 0, nKill |-> 0]

\* Popen.terminate / Popen.kill: a signal is sent unless the process has
\* exited already.
SendTerm(p) == IF p.state = "running" THEN [p EXCEPT !.nTerm = @ + 1] ELSE p
SendKill(p) == IF p.state = "running" THEN [p EXCEPT !.nKill = @ + 1] ELSE p

\* Mutant: run() goes on when start_watcher() has returned False.
AfterStartIgnoringFailure(started) == "register"

\* run(): if not self.start_watcher(): return 1
AfterStartWatcher(started) == IF started THEN "register" ELSE "exit"

\* start_watcher(), and what run() does with its result: on False it
\* returns 1.
StartWatcher ==
  /\ orchPc = "start_watcher"
  /\ \E outcome \in {"watcher_started", "no_script", "popen_error"} :
       /\ lastOutcome' = outcome
       /\ IF outcome = "watcher_started"
          THEN /\ procs' = Append(procs, NewProcess)
               /\ watcher_process' = Len(procs) + 1
               /\ orchPc' = ReturnTo(AfterStartWatcher(TRUE))
               /\ UNCHANGED result
          ELSE /\ orchPc' = ReturnTo(AfterStartWatcher(FALSE))
               /\ result' = IF InRun THEN 1 ELSE result
               /\ UNCHANGED <<procs, watcher_process>>
  /\ UNCHANGED dropOnlyVars
  /\ UNCHANGED bootVars
  /\ UNCHANGED <<driver, check_interval, running, handlers, agentsRunning,
                 approved, logs, today, pending_tasks, approved_actions,
                 exitCode, cycles, nCalls, stopOutcome, needs_action>>

\* Mutant: a handle counts only while its process is running.
HoldsLiveHandle(h) == h # NoProcess /\ procs[h].state = "running"

\* if self.watcher_process:
HoldsHandle(h) == h # NoProcess

\* stop_watcher() up to terminate()
StopEnter ==
  /\ orchPc = "stop_enter"
  /\ IF HoldsHandle(watcher_process)
     THEN /\ procs' = [procs EXCEPT
                         ![watcher_process] = SendTerm(procs[watcher_process])]
          /\ orchPc' = "stop_wait"
          /\ UNCHANGED stopOutcome
     ELSE /\ orchPc' = ReturnTo("exit")
          /\ stopOutcome' = "noop"
          /\ UNCHANGED procs
  /\ UNCHANGED dropOnlyVars
  /\ UNCHANGED bootVars
  /\ UNCHANGED <<driver, check_interval, running, handlers, watcher_process,
                 agentsRunning, approved, logs, today, pending_tasks,
                 approved_actions, result, exitCode, cycles, nCalls,
                 lastOutcome, needs_action>>

\* Mutant: wait() without a timeout.
WaitNeverTimesOut(p) == FALSE

\* self.watcher_process.wait(timeout=5) raises TimeoutExpired when the
\* process has not exited within the timeout.
WaitTimesOut(p) == p.state = "running"

\* wait(timeout=5) ends: the process has exited, or TimeoutExpired is
\* raised and caught.
StopWait ==
  /\ orchPc = "stop_wait"
  /\ \/ /\ procs[watcher_process].state = "exited"
        /\ stopOutcome' = "graceful"
        /\ orchPc' = "stop_clear"
     \/ /\ WaitTimesOut(procs[watcher_process])
        /\ orchPc' = "stop_kill"
        /\ UNCHANGED stopOutcome
  /\ UNCHANGED dropOnlyVars
  /\ UNCHANGED bootVars
  /\ UNCHANGED <<driver, check_interval, running, handlers, watcher_process,
                 procs, agentsRunning, approved, logs, today, pending_tasks,
                 approved_actions, result, exitCode, cycles, nCalls,
                 lastOutcome, needs_action>>

\* self.watcher_process.kill(), after the timeout
StopKill ==
  /\ orchPc = "stop_kill"
  /\ procs' = [procs EXCEPT
                 ![watcher_process] = SendKill(procs[watcher_process])]
  /\ stopOutcome' = "forced"
  /\ orchPc' = "stop_clear"
  /\ UNCHANGED dropOnlyVars
  /\ UNCHANGED bootVars
  /\ UNCHANGED <<driver, check_interval, running, handlers, watcher_process,
                 agentsRunning, approved, logs, today, pending_tasks,
                 approved_actions, result, exitCode, cycles, nCalls,
                 lastOutcome, needs_action>>

\* Mutant: the handle is kept.
KeptHandle(h) == h

\* self.watcher_process = None
ClearedHandle(h) == NoProcess

StopClear ==
  /\ orchPc = "stop_clear"
  /\ watcher_process' = ClearedHandle(watcher_process)
  /\ orchPc' = ReturnTo("exit")
  /\ UNCHANGED dropOnlyVars
  /\ UNCHANGED bootVars
  /\ UNCHANGED <<driver, check_interval, running, handlers, procs, agentsRunning,
                 approved, logs, today, pending_tasks,
                 approved_actions, result, exitCode, cycles, nCalls, lastOutcome,
                 stopOutcome, needs_action>>

\* A watcher process ends: by itself, on the termination request or killed.
\* A process that ignores the termination request is one that is still
\* running when the wait for it ends.
ProcessExit ==
  \E i \in DOMAIN procs :
    /\ procs[i].state = "running"
    /\ procs' = [procs EXCEPT ![i].state = "exited"]
    /\ UNCHANGED dropOnlyVars
    /\ UNCHANGED bootVars
    /\ UNCHANGED <<driver, check_interval, orchPc, running, handlers, watcher_process,
                   agentsRunning, approved, logs, today,
                   pending_tasks, approved_actions, result, exitCode, cycles,
                   nCalls, lastOutcome, stopOutcome, needs_action>>

\* The driver of the Orchestrator object calls start_watcher() and
\* stop_watcher() in any order.
CallStart ==
  /\ orchPc = "api"
  /\ nCalls < MaxCalls
  /\ nCalls' = nCalls + 1
  /\ orchPc' = "start_watcher"
  /\ UNCHANGED dropOnlyVars
  /\ UNCHANGED bootVars
  /\ UNCHANGED <<driver, check_interval, running, handlers, watcher_process, procs,
                 agentsRunning, approved, logs, today,
                 pending_tasks, approved_actions, result, exitCode, cycles,
                 lastOutcome, stopOutcome, needs_action>>

CallStop ==
  /\ orchPc = "api"
  /\ nCalls < MaxCalls
  /\ nCalls' = nCalls + 1
  /\ orchPc' = "stop_enter"
  /\ UNCHANGED dropOnlyVars
  /\ UNCHANGED bootVars
  /\ UNCHANGED <<driver, check_interval, running, handlers, watcher_process, procs,
                 agentsRunning, approved, logs, today,
                 pending_tasks, approved_actions, result, exitCode, cycles,
                 lastOutcome, stopOutcome, needs_action>>

\* The watcher process launched with argv, before its main has run.
DropDetectorAt(argv) ==
  /\ now = 0
  /\ fs = <<>>
  /\ nCreated = 0
  /\ wArgv = argv
  /\ wPc = "main"
  /\ vault_path = None
  /\ drop_path = NoDrop
  /\ events = <<>>
  /\ hPc = "idle"
  /\ hSource = NoPath
  /\ file_hash = NoHash
  /\ hAction = NoAction
  /\ processed_files = {}
  /\ logged = Log("none", NoPath, NoHash)
  /\ written = <<>>
  /\ ioFault = FALSE

DropDetectorIdle == DropDetectorAt(StartWatcherArgv(DefaultVault))

\* An Orchestrator constructed with the default interval, its methods
\* called by the driver.
InitSup ==
  /\ driver = "api"
  /\ orchPc = "api"
  /\ check_interval = DefaultInterval
  /\ OrchConstructed
  /\ VaultsReady
  /\ DropDetectorIdle
  /\ needs_action = <<>>

SupStep ==
  \/ StartWatcher
  \/ StopEnter
  \/ StopWait
  \/ StopKill
  \/ StopClear

NextSup ==
  \/ CallStart
  \/ CallStop
  \/ SupStep
  \/ ProcessExit

\* The supervisor driven through its interface.
SpecSup == InitSup /\ [][NextSup]_vars

\* A call that has begun proceeds: the orchestrator's thread is scheduled.
FairSpecSup == SpecSup /\ WF_vars(SupStep)

(***************************************************************************)
(* Orchestrator: stage scans, agent trigger and the orchestration loop     *)
(* (check_needs_action, trigger_qwen_code, _invoke_qwen_code,              *)
(* _log_pending_tasks, check_approved_actions, process_approved_actions,   *)
(* _log_approved_actions, run_cycle, run, _signal_handler, shutdown).      *)
(***************************************************************************)
\* The files other processes (the watcher, the agent, a human) put into and
\* take out of Needs_Action and Approved while the orchestrator runs.
\* The sources of those files: a.txt and b.txt, both handled at time 0.
StageSources == { <<"a", ".", "t", "x", "t">>, <<"b", ".", "t", "x", "t">> }

StageNames ==
  { ActionFilename(<<"a", ".", "t", "x", "t">>, 0),
    ActionFilename(<<"b", ".", "t", "x", "t">>, 0),
    CopyFilename(<<"a", ".", "t", "x", "t">>, 0) }

ApprovedNames ==
  { <<"A", "P", "P", "R", "O", "V", "A", "L", "_", "a", ".", "m", "d">> }

\* The source a file of StageNames was written for.
StageSource(f) ==
  CHOOSE s \in StageSources :
    f \in {ActionFilename(s, 0), CopyFilename(s, 0)}

\* The file is the record of its source, not the copy.
IsStageRecord(f) == f = ActionFilename(StageSource(f), 0)

StageFile(f) ==
  [kind |-> IF IsStageRecord(f) THEN "record" ELSE "copy",
   type |-> IF IsStageRecord(f) THEN "file_drop" ELSE "raw",
   source_file |-> StageSource(f), file_size |-> 1, modified |-> 0,
   status |-> IF IsStageRecord(f) THEN "pending" ELSE "",
   complete |-> TRUE]

\* fnmatch of a file name against '*.md'
MatchesMd(f) ==
  Len(f) >= 3 /\ SubSeq(f, Len(f) - 2, Len(f)) = <<".", "m", "d">>

\* folder.glob('*.md')
Glob(names) == {f \in names : MatchesMd(f)}

\* list(...): the matches in the order the directory lists them
Listings(S) ==
  {l \in [1 .. Cardinality(S) -> S] : \A i, j \in DOMAIN l : l[i] = l[j] => i = j}

\* Mutant: the folder is read in the first cycle only; later cycles find
\* nothing new.
ScanStageFirstCycle(existing, folder, names) ==
  IF cycles > 1 \/ folder \notin existing
  THEN {<<>>}
  ELSE Listings(Glob(names))

\* Mutant: every entry of the folder is returned, whatever its name.
ScanStageUnfiltered(existing, folder, names) ==
  IF folder \notin existing THEN {<<>>} ELSE Listings(names)

\* check_needs_action, check_approved_actions: the lists a scan of folder
\* can return, names being the entries of the folder: [] when the folder
\* does not exist, else list(folder.glob('*.md')).
ScanStage(existing, folder, names) ==
  IF folder \notin existing THEN {<<>>} ELSE Listings(Glob(names))

\* Mutant: the entry counts one task less.
PendingEntryShort(task_files) ==
  [action_type |-> "pending_tasks_detected", count |-> Len(task_files) - 1,
   items |-> task_files]

\* _log_pending_tasks: log_entry
PendingEntry(task_files) ==
  [action_type |-> "pending_tasks_detected", count |-> Len(task_files),
   items |-> task_files]

\* Mutant: the entry counts one action whatever the list holds.
ApprovedEntryOfOne(approved_files) ==
  [action_type |-> "approved_actions_ready", count |-> 1,
   items |-> approved_files]

\* _log_approved_actions: log_entry
ApprovedEntry(approved_files) ==
  [action_type |-> "approved_actions_ready", count |-> Len(approved_files),
   items |-> approved_files]

\* Mutant: the entry is put at the head of the day's file.
PrependLog(files, day, entry) ==
  [d \in DOMAIN files \cup {day} |->
     IF d = day
     THEN IF day \in DOMAIN files THEN <<entry>> \o files[day] ELSE <<entry>>
     ELSE files[d]]

\* Mutant: the day's file is opened for writing, not for appending.
OverwriteLog(files, day, entry) ==
  [d \in DOMAIN files \cup {day} |-> IF d = day THEN <<entry>> ELSE files[d]]

\* with open(log_file, 'a') as f: f.write(log_entry)
AppendLog(files, day, entry) ==
  [d \in DOMAIN files \cup {day} |->
     IF d = day
     THEN IF day \in DOMAIN files THEN Append(files[day], entry) ELSE <<entry>>
     ELSE files[d]]

\* Mutant: the cycle waits for every agent it has spawned.
AwaitedAll(nRunning) == nRunning

\* The number of running agent processes the cycle waits for before it
\* goes on: subprocess.Popen returns at once and nothing waits on it.
AwaitedAgents(nRunning) == 0

Run ==
  /\ orchPc = "run"
  /\ running' = TRUE
  /\ orchPc' = "start_watcher"
  /\ UNCHANGED dropOnlyVars
  /\ UNCHANGED bootVars
  /\ UNCHANGED <<driver, check_interval, handlers, watcher_process, procs, agentsRunning,
                 approved, logs, today, pending_tasks,
                 approved_actions, result, exitCode, cycles, nCalls, lastOutcome,
                 stopOutcome, needs_action>>

\* signal.signal(signal.SIGINT, self._signal_handler).  In a thread that
\* is not the main thread signal.signal raises ValueError: run() is left
\* before its try block, the flag set, the watcher running and its handle
\* held.
RegisterSigint ==
  /\ orchPc = "register"
  /\ IF driver = "thread"
     THEN /\ orchPc' = "raised"
          /\ UNCHANGED handlers
     ELSE /\ orchPc' = "register_term"
          /\ handlers' = handlers \cup {SIGINT}
  /\ UNCHANGED dropOnlyVars
  /\ UNCHANGED bootVars
  /\ UNCHANGED <<driver, check_interval, running, watcher_process, procs, agentsRunning,
                 approved, logs, today, pending_tasks,
                 approved_actions, result, exitCode, cycles, nCalls, lastOutcome,
                 stopOutcome, needs_action>>

\* signal.signal(signal.SIGTERM, self._signal_handler)
RegisterSigterm ==
  /\ orchPc = "register_term"
  /\ handlers' = handlers \cup {SIGTERM}
  /\ orchPc' = "loop"
  /\ UNCHANGED dropOnlyVars
  /\ UNCHANGED bootVars
  /\ UNCHANGED <<driver, check_interval, running, watcher_process, procs, agentsRunning,
                 approved, logs, today, pending_tasks,
                 approved_actions, result, exitCode, cycles, nCalls, lastOutcome,
                 stopOutcome, needs_action>>

\* SIGINT or SIGTERM is delivered to the orchestrator process: the handler
\* run() has registered for the signal clears the flag; a signal that has no
\* handler yet ends the process where it stands.
Signal ==
  /\ driver \in {"run", "thread", "boot"}
  /\ orchPc \notin {"done", "killed", "parser_exit"}
  /\ \E sig \in {SIGINT, SIGTERM} :
       IF sig \in handlers
       THEN /\ running' = FALSE
            /\ UNCHANGED <<orchPc, exitCode>>
       ELSE /\ orchPc' = "killed"
            /\ exitCode' = 0 - sig
            /\ UNCHANGED running
  /\ UNCHANGED dropOnlyVars
  /\ UNCHANGED bootVars
  /\ UNCHANGED <<driver, check_interval, handlers, watcher_process, procs,
                 agentsRunning, approved, logs, today, pending_tasks,
                 approved_actions, result, cycles, nCalls, lastOutcome,
                 stopOutcome, needs_action>>

\* while self.running:
LoopTest ==
  /\ orchPc = "loop"
  /\ IF running
     THEN /\ cycles < MaxCycles
          /\ cycles' = cycles + 1
          /\ orchPc' = "check_needs"
          /\ lastOutcome' = "none"
          /\ UNCHANGED result
     ELSE /\ orchPc' = "shutdown"
          /\ result' = 0
          /\ UNCHANGED <<cycles, lastOutcome>>
  /\ UNCHANGED dropOnlyVars
  /\ UNCHANGED bootVars
  /\ UNCHANGED <<driver, check_interval, running, handlers, watcher_process, procs,
                 agentsRunning, approved, logs, today,
                 pending_tasks, approved_actions, exitCode, nCalls,
                 stopOutcome, needs_action>>

\* Mutant: no trigger while an agent spawned earlier is still running.
TriggerDueAfterCooldown(tasks, nRunning) == tasks # <<>> /\ nRunning = 0

\* run_cycle: if pending_tasks: -- the scan result alone decides; the
\* agents spawned by earlier cycles play no part.
TriggerDue(tasks, nRunning) == tasks # <<>>

\* run_cycle: pending_tasks = self.check_needs_action(), with the message
\* of line 339.  The stats and the listing of the scan are one step here:
\* no folder is removed in the behaviours of the run loop.
CheckNeedsAction ==
  /\ orchPc = "check_needs"
  /\ \E l \in ScanStage(dirs, Folder(orchVault, "Needs_Action"),
                         DOMAIN needs_action) :
       /\ pending_tasks' = l
       /\ orchPc' = IF TriggerDue(l, agentsRunning)
                    THEN "trigger"
                    ELSE "check_approved"
  /\ UNCHANGED dropOnlyVars
  /\ UNCHANGED bootVars
  /\ UNCHANGED <<driver, check_interval, running, handlers, watcher_process, procs,
                 agentsRunning, approved, logs, today,
                 approved_actions, result, exitCode, cycles, nCalls, lastOutcome,
                 stopOutcome, needs_action>>

\* trigger_qwen_code(pending_tasks): _invoke_qwen_code, with its fallback
\* to _log_pending_tasks when the agent cannot be spawned.
TriggerQwenCode ==
  /\ orchPc = "trigger"
  /\ IF pending_tasks = <<>>
     THEN /\ orchPc' = "check_approved"
          /\ UNCHANGED <<agentsRunning, logs, result, lastOutcome, dirs>>
     ELSE \E outcome \in {"invoked", "not_found", "spawn_error"},
             logOutcome \in {"written", "mkdir_error", "open_error"} :
            IF outcome = "invoked"
            THEN /\ agentsRunning' = agentsRunning + 1
                 /\ orchPc' = "check_approved"
                 /\ lastOutcome' = outcome
                 /\ UNCHANGED <<logs, result, dirs>>
            ELSE /\ UNCHANGED agentsRunning
                 /\ dirs' = IF logOutcome = "mkdir_error"
                            THEN dirs
                            ELSE Mkdir(dirs, Folder(orchVault, "Logs"))
                 /\ IF logOutcome = "written"
                    THEN /\ logs' = AppendLog(logs, today,
                                              PendingEntry(pending_tasks))
                         /\ orchPc' = "check_approved"
                         /\ lastOutcome' = outcome
                         /\ UNCHANGED result
                    ELSE /\ orchPc' = "shutdown"
                         /\ result' = 1
                         /\ lastOutcome' = "orchestrator_error"
                         /\ UNCHANGED logs
  /\ UNCHANGED dropOnlyVars
  /\ UNCHANGED <<others, orchVault, wExit>>
  /\ UNCHANGED <<driver, check_interval, running, handlers, watcher_process, procs, approved,
                 today, pending_tasks, approved_actions, exitCode, cycles,
                 nCalls, stopOutcome, needs_action>>

CheckApprovedActions ==
  /\ orchPc = "check_approved"
  /\ AwaitedAgents(agentsRunning) = 0
  /\ \E l \in ScanStage(dirs, Folder(orchVault, "Approved"), approved) :
       /\ approved_actions' = l
       /\ orchPc' = IF l # <<>> THEN "process_approved" ELSE "sleep"
  /\ UNCHANGED dropOnlyVars
  /\ UNCHANGED bootVars
  /\ UNCHANGED <<driver, check_interval, running, handlers, watcher_process, procs,
                 agentsRunning, approved, logs, today,
                 pending_tasks, result, exitCode, cycles, nCalls, lastOutcome,
                 stopOutcome, needs_action>>

ProcessApprovedActions ==
  /\ orchPc = "process_approved"
  /\ IF approved_actions = <<>>
     THEN /\ orchPc' = "sleep"
          /\ UNCHANGED <<logs, result, lastOutcome>>
     ELSE \E logWritten \in {b \in BOOLEAN :
                                b => Folder(orchVault, "Logs") \in dirs} :
            IF logWritten
            THEN /\ logs' = AppendLog(logs, today,
                                      ApprovedEntry(approved_actions))
                 /\ orchPc' = "sleep"
                 /\ lastOutcome' = "approved_logged"
                 /\ UNCHANGED result
            ELSE /\ orchPc' = "shutdown"
                 /\ result' = 1
                 /\ lastOutcome' = "orchestrator_error"
                 /\ UNCHANGED logs
  /\ UNCHANGED dropOnlyVars
  /\ UNCHANGED bootVars
  /\ UNCHANGED <<driver, check_interval, running, handlers, watcher_process, procs,
                 agentsRunning, approved, today, pending_tasks,
                 approved_actions, exitCode, cycles, nCalls, stopOutcome,
                 needs_action>>

\* time.sleep(self.check_interval), run_cycle having returned.  A negative
\* interval raises ValueError inside the try block of run(): the error is
\* logged and run() returns 1 after shutdown().
Sleep ==
  /\ orchPc = "sleep"
  /\ pending_tasks' = <<>>
  /\ approved_actions' = <<>>
  /\ IF check_interval >= 0
     THEN /\ orchPc' = "loop"
          /\ UNCHANGED <<result, lastOutcome>>
     ELSE /\ orchPc' = "shutdown"
          /\ result' = 1
          /\ lastOutcome' = "orchestrator_error"
  /\ UNCHANGED dropOnlyVars
  /\ UNCHANGED bootVars
  /\ UNCHANGED <<driver, check_interval, running, handlers, watcher_process,
                 procs, agentsRunning, approved, logs, today, exitCode,
                 cycles, nCalls, stopOutcome, needs_action>>

\* finally: self.shutdown()
Shutdown ==
  /\ orchPc = "shutdown"
  /\ orchPc' = "stop_enter"
  /\ pending_tasks' = <<>>
  /\ approved_actions' = <<>>
  /\ UNCHANGED dropOnlyVars
  /\ UNCHANGED bootVars
  /\ UNCHANGED <<driver, check_interval, running, handlers, watcher_process, procs,
                 agentsRunning, approved, logs, today, result, exitCode,
                 cycles, nCalls, lastOutcome, stopOutcome, needs_action>>

\* Mutant: the process exits with status 0 whatever run() returned.
ExitStatusZero(returned) == 0

\* sys.exit(main()), main returning what run() returned
ExitStatus(returned) == returned

\* return from main(), with what run() has returned if it was called;
\* sys.exit(main())
Exit ==
  /\ orchPc = "exit"
  /\ exitCode' = ExitStatus(result)
  /\ orchPc' = "done"
  /\ UNCHANGED dropOnlyVars
  /\ UNCHANGED bootVars
  /\ UNCHANGED <<driver, check_interval, running, handlers, watcher_process, procs,
                 agentsRunning, approved, logs, today,
                 pending_tasks, approved_actions, result, cycles, nCalls,
                 lastOutcome, stopOutcome, needs_action>>

\* An agent process ends.
AgentExit ==
  /\ agentsRunning > 0
  /\ agentsRunning' = agentsRunning - 1
  /\ UNCHANGED dropOnlyVars
  /\ UNCHANGED bootVars
  /\ UNCHANGED <<driver, check_interval, orchPc, running, handlers, watcher_process, procs,
                 approved, logs, today, pending_tasks,
                 approved_actions, result, exitCode, cycles, nCalls, lastOutcome,
                 stopOutcome, needs_action>>

\* The watcher, the agent or a human changes the stage directories.  The
\* orchestrator reads Needs_Action only in check_needs_action and Approved
\* only in check_approved_actions, so a change at any other moment is the
\* same as that change just before the next read.
StageAdd ==
  /\ \/ \E f \in StageNames \ DOMAIN needs_action :
          /\ orchPc = "check_needs"
          /\ needs_action' = WriteFile(needs_action, f, StageFile(f))
          /\ UNCHANGED approved
     \/ \E f \in ApprovedNames \ approved :
          /\ orchPc = "check_approved"
          /\ approved' = approved \cup {f}
          /\ UNCHANGED needs_action
  /\ UNCHANGED dropOnlyVars
  /\ UNCHANGED bootVars
  /\ UNCHANGED <<driver, check_interval, orchPc, running, handlers, watcher_process, procs,
                 agentsRunning, logs, today, pending_tasks,
                 approved_actions, result, exitCode, cycles, nCalls, lastOutcome,
                 stopOutcome>>

StageRemove ==
  /\ \/ \E f \in DOMAIN needs_action :
          /\ orchPc = "check_needs"
          /\ needs_action' = [g \in DOMAIN needs_action \ {f} |-> needs_action[g]]
          /\ UNCHANGED approved
     \/ \E f \in approved :
          /\ orchPc = "check_approved"
          /\ approved' = approved \ {f}
          /\ UNCHANGED needs_action
  /\ UNCHANGED dropOnlyVars
  /\ UNCHANGED bootVars
  /\ UNCHANGED <<driver, check_interval, orchPc, running, handlers, watcher_process, procs,
                 agentsRunning, logs, today, pending_tasks,
                 approved_actions, result, exitCode, cycles, nCalls, lastOutcome,
                 stopOutcome>>

\* The calendar day changes.  The date is read only when a log entry is
\* written.
Midnight ==
  /\ orchPc \in {"trigger", "process_approved"}
  /\ today = FirstDay
  /\ today' = NextDay
  /\ UNCHANGED dropOnlyVars
  /\ UNCHANGED bootVars
  /\ UNCHANGED <<driver, check_interval, orchPc, running, handlers, watcher_process, procs,
                 agentsRunning, approved, logs, pending_tasks,
                 approved_actions, result, exitCode, cycles, nCalls, lastOutcome,
                 stopOutcome, needs_action>>

\* run() is called in the main thread or in another one.
InitOrch ==
  /\ driver \in {"run", "thread"}
  /\ orchPc = "run"
  /\ check_interval \in Intervals
  /\ OrchConstructed
  /\ VaultsReady
  /\ DropDetectorIdle
  /\ needs_action = <<>>

\* The steps of the orchestrator's own thread.
OrchStep ==
  \/ Run
  \/ StartWatcher
  \/ RegisterSigint
  \/ RegisterSigterm
  \/ LoopTest
  \/ CheckNeedsAction
  \/ TriggerQwenCode
  \/ CheckApprovedActions
  \/ ProcessApprovedActions
  \/ Sleep
  \/ Shutdown
  \/ StopEnter
  \/ StopWait
  \/ StopKill
  \/ StopClear
  \/ Exit

NextOrch ==
  \/ OrchStep
  \/ Signal
  \/ ProcessExit
  \/ AgentExit
  \/ StageAdd
  \/ StageRemove
  \/ Midnight

\* The orchestrator process of one vault, from run() on.
SpecOrch == InitOrch /\ [][NextOrch]_vars

\* The orchestrator's thread is scheduled while it has a step to take; the
\* processes it spawns are not required to end.
FairSpecOrch == SpecOrch /\ WF_vars(OrchStep)

(***************************************************************************)
(* Orchestrator: start of the process (main, Orchestrator.__init__).       *)
(***************************************************************************)
\* main: args = parser.parse_args().  The parser ends the process itself,
\* with status 0 after the help text and with status 2 on arguments it
\* rejects; else the interval is the one given, or the default.
ParseArgs ==
  /\ orchPc = "parse_args"
  /\ \E parsed \in {"args", "help", "error"} :
       IF parsed = "args"
       THEN /\ \E i \in Intervals : check_interval' = i
            /\ orchPc' = "main"
            /\ UNCHANGED exitCode
       ELSE /\ orchPc' = "parser_exit"
            /\ exitCode' = IF parsed = "help" THEN 0 ELSE 2
            /\ UNCHANGED check_interval
  /\ UNCHANGED dropOnlyVars
  /\ UNCHANGED bootVars
  /\ UNCHANGED <<driver, running, handlers, watcher_process, procs,
                 agentsRunning, approved, logs, today, pending_tasks,
                 approved_actions, result, cycles, nCalls, lastOutcome,
                 stopOutcome, needs_action>>

\* main: the vault given with --vault, or the default vault, must exist;
\* main returns 1 if it does not.
OrchMain ==
  /\ orchPc = "main"
  /\ IF VaultExists(dirs, orchVault)
     THEN /\ orchPc' = "init"
          /\ UNCHANGED <<result, lastOutcome>>
     ELSE /\ orchPc' = "exit"
          /\ result' = 1
          /\ lastOutcome' = "vault_missing"
  /\ UNCHANGED dropOnlyVars
  /\ UNCHANGED bootVars
  /\ UNCHANGED <<driver, check_interval, running, handlers, watcher_process,
                 procs, agentsRunning, approved, logs, today, pending_tasks,
                 approved_actions, exitCode, cycles, nCalls, stopOutcome,
                 needs_action>>

\* Orchestrator.__init__ up to _ensure_folders; its ValueError is caught by
\* main, which returns 1.
OrchInit ==
  /\ orchPc = "init"
  /\ watcher_process' = NoProcess
  /\ running' = FALSE
  /\ IF VaultExists(dirs, orchVault)
     THEN /\ orchPc' = EnsurePcs[1]
          /\ UNCHANGED <<result, lastOutcome>>
     ELSE /\ orchPc' = "exit"
          /\ result' = 1
          /\ lastOutcome' = "configuration_error"
  /\ UNCHANGED dropOnlyVars
  /\ UNCHANGED bootVars
  /\ UNCHANGED <<driver, check_interval, handlers, procs, agentsRunning,
                 approved, logs, today, pending_tasks, approved_actions,
                 exitCode, cycles, nCalls, stopOutcome, needs_action>>

\* _ensure_folders: the mkdir of one folder; after the last one __init__
\* returns.
EnsureFoldersStep ==
  /\ orchPc \in {EnsurePcs[i] : i \in DOMAIN EnsurePcs}
  /\ dirs' = EnsureFolder(dirs, orchVault, EnsureIndex(orchPc))
  /\ orchPc' = IF EnsureIndex(orchPc) < Len(EnsurePcs)
               THEN EnsurePcs[EnsureIndex(orchPc) + 1]
               ELSE IF InRun THEN "run" ELSE "constructed"
  /\ UNCHANGED dropOnlyVars
  /\ UNCHANGED <<others, orchVault, wExit>>
  /\ UNCHANGED <<driver, check_interval, running, handlers, watcher_process,
                 procs, agentsRunning, approved, logs, today, pending_tasks,
                 approved_actions, result, exitCode, cycles, nCalls,
                 lastOutcome, stopOutcome, needs_action>>

\* Another Orchestrator is constructed on the same vault.
Reconstruct ==
  /\ orchPc = "constructed"
  /\ nCalls < MaxCalls
  /\ nCalls' = nCalls + 1
  /\ orchPc' = "init"
  /\ UNCHANGED dropOnlyVars
  /\ UNCHANGED bootVars
  /\ UNCHANGED <<driver, check_interval, running, handlers, watcher_process, procs,
                 agentsRunning, approved, logs, today, pending_tasks,
                 approved_actions, result, exitCode, cycles, lastOutcome,
                 stopOutcome, needs_action>>

\* A file that is in a stage folder before the processes start.
OldItem == <<"o", "l", "d", ".", "m", "d">>

\* The vault before the processes start: missing, or there with any of its
\* stage folders.
Layouts(vault) ==
  {{}} \cup
  { {Root(vault)} \cup {Folder(vault, StageFolders[i]) : i \in I} :
      I \in SUBSET DOMAIN StageFolders }

OldItems(existing, vault) ==
  [f \in OtherStages |->
     IF Folder(vault, f) \in existing THEN {OldItem} ELSE {}]

\* The orchestrator and the watcher are started on the same vault.
InitBoot ==
  /\ driver = "boot"
  /\ orchPc = "parse_args"
  /\ check_interval = DefaultInterval
  /\ OrchConstructed
  /\ orchVault \in Vaults
  /\ dirs \in Layouts(orchVault)
  /\ others = OldItems(dirs, orchVault)
  /\ wExit = -1
  /\ now = 0
  /\ fs = <<>>
  /\ nCreated = 0
  /\ wArgv = StartWatcherArgv(orchVault)
  /\ wPc = "main"
  /\ vault_path = None
  /\ drop_path = NoDrop
  /\ events = <<>>
  /\ hPc = "idle"
  /\ hSource = NoPath
  /\ file_hash = NoHash
  /\ hAction = NoAction
  /\ processed_files = {}
  /\ needs_action = <<>>
  /\ logged = Log("none", NoPath, NoHash)
  /\ written = <<>>
  /\ ioFault = FALSE

NextBoot ==
  \/ ParseArgs
  \/ OrchMain
  \/ OrchInit
  \/ EnsureFoldersStep
  \/ Reconstruct
  \/ Exit
  \/ WatcherMain
  \/ WatcherConfigExit
  \/ WatcherMkdirDrop
  \/ WatcherMkdirNeeds
  \/ WatcherRun
  \/ WatcherLoop

\* The start of both processes on one vault.
SpecBoot == InitBoot /\ [][NextBoot]_vars

NextStart ==
  \/ NextBoot
  \/ Signal
  \/ Terminate
  \/ Interrupt

\* The start of both processes on one vault, signals reaching them.
SpecStart == InitBoot /\ [][NextStart]_vars

\* The vault before the orchestrator starts: missing, or there with Done,
\* which holds an old file, and without the other stage folders.
MainLayouts(vault) == {{}, {Root(vault), Folder(vault, "Done")}}

InitMain ==
  /\ driver = "run"
  /\ orchPc = "parse_args"
  /\ check_interval = DefaultInterval
  /\ OrchConstructed
  /\ DropDetectorAt(StartWatcherArgv(OtherVault))
  /\ needs_action = <<>>
  /\ orchVault = OtherVault
  /\ dirs \in MainLayouts(orchVault)
  /\ others = OldItems(dirs, orchVault)
  /\ wExit = -1

\* The watcher process start_watcher() has spawned runs its main up to the
\* loop of run().
SpawnedWatcherMain ==
  /\ \E i \in DOMAIN procs : procs[i].state = "running"
  /\ \/ WatcherMain
     \/ WatcherMkdirDrop
     \/ WatcherMkdirNeeds
     \/ WatcherRun
     \/ WatcherLoop

NextMain ==
  \/ ParseArgs
  \/ OrchMain
  \/ OrchInit
  \/ EnsureFoldersStep
  \/ SpawnedWatcherMain
  \/ NextOrch

\* The orchestrator process from main() on.
SpecMain == InitMain /\ [][NextMain]_vars

(***************************************************************************)
(* The stage scans driven through the orchestrator's interface, while      *)
(* other actors change the stage folders.                                  *)
(***************************************************************************)
\* What a human may put in Approved: approval records and a note.
ApprovalNames ==
  ApprovedNames
    \cup { <<"A", "P", "P", "R", "O", "V", "A", "L", "_", "b", ".", "m", "d">>,
           <<"n", "o", "t", "e", "s", ".", "t", "x", "t">> }

\* The orchestrator is about to read the stage, before or between the
\* system calls of a scan, or is not in a call at all.
BeforeRead(stage) ==
  \/ orchPc = "api"
  \/ stage = "Needs_Action"
       /\ orchPc \in {"check_needs", "needs_is_dir", "needs_scandir"}
  \/ stage = "Approved"
       /\ orchPc \in {"check_approved", "approved_is_dir", "approved_scandir"}

\* check_needs_action() is called: needs_action_folder.exists() (line 132),
\* which makes it return [] for a folder that is not there.
CallCheckNeedsAction ==
  /\ orchPc = "api"
  /\ nCalls < MaxCalls
  /\ nCalls' = nCalls + 1
  /\ IF Folder(orchVault, "Needs_Action") \in dirs
     THEN /\ orchPc' = "needs_is_dir"
          /\ UNCHANGED <<pending_tasks, lastOutcome>>
     ELSE /\ orchPc' = "api"
          /\ pending_tasks' = <<>>
          /\ lastOutcome' = "scanned"
  /\ UNCHANGED dropOnlyVars
  /\ UNCHANGED bootVars
  /\ UNCHANGED <<driver, check_interval, running, handlers, watcher_process,
                 procs, agentsRunning, approved, logs, today,
                 approved_actions, result, exitCode, cycles, stopOutcome,
                 needs_action>>

\* glob('*.md') (line 135) begins with is_dir(), which makes it yield
\* nothing for a folder that is not there.
CheckNeedsActionIsDir ==
  /\ orchPc = "needs_is_dir"
  /\ IF Folder(orchVault, "Needs_Action") \in dirs
     THEN /\ orchPc' = "needs_scandir"
          /\ UNCHANGED <<pending_tasks, lastOutcome>>
     ELSE /\ orchPc' = "api"
          /\ pending_tasks' = <<>>
          /\ lastOutcome' = "scanned"
  /\ UNCHANGED nCalls
  /\ UNCHANGED dropOnlyVars
  /\ UNCHANGED bootVars
  /\ UNCHANGED <<driver, check_interval, running, handlers, watcher_process,
                 procs, agentsRunning, approved, logs, today,
                 approved_actions, result, exitCode, cycles, stopOutcome,
                 needs_action>>

\* glob('*.md') lists the folder with scandir and check_needs_action
\* returns the entries that match; the FileNotFoundError of scandir for a
\* folder that is not there leaves check_needs_action and nothing is
\* returned.
CheckNeedsActionScandir ==
  /\ orchPc = "needs_scandir"
  /\ orchPc' = "api"
  /\ IF Folder(orchVault, "Needs_Action") \in dirs
     THEN /\ \E l \in ScanStage(dirs, Folder(orchVault, "Needs_Action"),
                                DOMAIN needs_action) :
               pending_tasks' = l
          /\ lastOutcome' = "scanned"
     ELSE /\ UNCHANGED pending_tasks
          /\ lastOutcome' = "scan_error"
  /\ UNCHANGED nCalls
  /\ UNCHANGED dropOnlyVars
  /\ UNCHANGED bootVars
  /\ UNCHANGED <<driver, check_interval, running, handlers, watcher_process,
                 procs, agentsRunning, approved, logs, today,
                 approved_actions, result, exitCode, cycles, stopOutcome,
                 needs_action>>

\* check_approved_actions() is called: approved_folder.exists() (line 274),
\* which makes it return [] for a folder that is not there.
CallCheckApprovedActions ==
  /\ orchPc = "api"
  /\ nCalls < MaxCalls
  /\ nCalls' = nCalls + 1
  /\ IF Folder(orchVault, "Approved") \in dirs
     THEN /\ orchPc' = "approved_is_dir"
          /\ UNCHANGED <<approved_actions, lastOutcome>>
     ELSE /\ orchPc' = "api"
          /\ approved_actions' = <<>>
          /\ lastOutcome' = "scanned"
  /\ UNCHANGED dropOnlyVars
  /\ UNCHANGED bootVars
  /\ UNCHANGED <<driver, check_interval, running, handlers, watcher_process,
                 procs, agentsRunning, approved, logs, today,
                 pending_tasks, result, exitCode, cycles, stopOutcome,
                 needs_action>>

\* glob('*.md') (line 277) begins with is_dir(), which makes it yield
\* nothing for a folder that is not there.
CheckApprovedActionsIsDir ==
  /\ orchPc = "approved_is_dir"
  /\ IF Folder(orchVault, "Approved") \in dirs
     THEN /\ orchPc' = "approved_scandir"
          /\ UNCHANGED <<approved_actions, lastOutcome>>
     ELSE /\ orchPc' = "api"
          /\ approved_actions' = <<>>
          /\ lastOutcome' = "scanned"
  /\ UNCHANGED nCalls
  /\ UNCHANGED dropOnlyVars
  /\ UNCHANGED bootVars
  /\ UNCHANGED <<driver, check_interval, running, handlers, watcher_process,
                 procs, agentsRunning, approved, logs, today,
                 pending_tasks, result, exitCode, cycles, stopOutcome,
                 needs_action>>

\* glob('*.md') lists the folder with scandir and check_approved_actions
\* returns the entries that match; the FileNotFoundError of scandir for a
\* folder that is not there leaves check_approved_actions and nothing is
\* returned.
CheckApprovedActionsScandir ==
  /\ orchPc = "approved_scandir"
  /\ orchPc' = "api"
  /\ IF Folder(orchVault, "Approved") \in dirs
     THEN /\ \E l \in ScanStage(dirs, Folder(orchVault, "Approved"),
                                approved) :
               approved_actions' = l
          /\ lastOutcome' = "scanned"
     ELSE /\ UNCHANGED approved_actions
          /\ lastOutcome' = "scan_error"
  /\ UNCHANGED nCalls
  /\ UNCHANGED dropOnlyVars
  /\ UNCHANGED bootVars
  /\ UNCHANGED <<driver, check_interval, running, handlers, watcher_process,
                 procs, agentsRunning, approved, logs, today,
                 pending_tasks, result, exitCode, cycles, stopOutcome,
                 needs_action>>

\* The watcher or a human puts a file in Needs_Action.
NeedsActionAdd ==
  /\ BeforeRead("Needs_Action")
  /\ Folder(orchVault, "Needs_Action") \in dirs
  /\ \E f \in StageNames \ DOMAIN needs_action :
       needs_action' = WriteFile(needs_action, f, StageFile(f))
  /\ UNCHANGED dropOnlyVars
  /\ UNCHANGED bootVars
  /\ UNCHANGED <<driver, check_interval, orchPc, running, handlers, watcher_process, procs,
                 agentsRunning, approved, logs, today, pending_tasks,
                 approved_actions, result, exitCode, cycles, nCalls, lastOutcome,
                 stopOutcome>>

\* The agent or a human takes a file out of Needs_Action.
NeedsActionRemove ==
  /\ BeforeRead("Needs_Action")
  /\ \E f \in DOMAIN needs_action :
       needs_action' = [g \in DOMAIN needs_action \ {f} |-> needs_action[g]]
  /\ UNCHANGED dropOnlyVars
  /\ UNCHANGED bootVars
  /\ UNCHANGED <<driver, check_interval, orchPc, running, handlers, watcher_process, procs,
                 agentsRunning, approved, logs, today, pending_tasks,
                 approved_actions, result, exitCode, cycles, nCalls, lastOutcome,
                 stopOutcome>>

\* A human puts a file in Approved.
ApprovedAdd ==
  /\ BeforeRead("Approved")
  /\ Folder(orchVault, "Approved") \in dirs
  /\ \E f \in ApprovalNames \ approved : approved' = approved \cup {f}
  /\ UNCHANGED dropOnlyVars
  /\ UNCHANGED bootVars
  /\ UNCHANGED <<driver, check_interval, orchPc, running, handlers, watcher_process, procs,
                 agentsRunning, logs, today, pending_tasks,
                 approved_actions, result, exitCode, cycles, nCalls, lastOutcome,
                 stopOutcome, needs_action>>

\* A human takes a file out of Approved.
ApprovedRemove ==
  /\ BeforeRead("Approved")
  /\ \E f \in approved : approved' = approved \ {f}
  /\ UNCHANGED dropOnlyVars
  /\ UNCHANGED bootVars
  /\ UNCHANGED <<driver, check_interval, orchPc, running, handlers, watcher_process, procs,
                 agentsRunning, logs, today, pending_tasks,
                 approved_actions, result, exitCode, cycles, nCalls, lastOutcome,
                 stopOutcome, needs_action>>

\* A human removes a stage folder with what it holds.
StageDirRemove ==
  /\ \E stage \in {"Needs_Action", "Approved"} :
       /\ BeforeRead(stage)
       /\ Folder(orchVault, stage) \in dirs
       /\ dirs' = dirs \ {Folder(orchVault, stage)}
       /\ needs_action' = IF stage = "Needs_Action" THEN <<>> ELSE needs_action
       /\ approved' = IF stage = "Approved" THEN {} ELSE approved
  /\ UNCHANGED dropOnlyVars
  /\ UNCHANGED <<others, orchVault, wExit>>
  /\ UNCHANGED <<driver, check_interval, orchPc, running, handlers, watcher_process, procs,
                 agentsRunning, logs, today, pending_tasks,
                 approved_actions, result, exitCode, cycles, nCalls, lastOutcome,
                 stopOutcome>>

\* A human creates a stage folder that was removed.
StageDirCreate ==
  /\ \E stage \in {"Needs_Action", "Approved"} :
       /\ BeforeRead(stage)
       /\ Folder(orchVault, stage) \notin dirs
       /\ dirs' = Mkdir(dirs, Folder(orchVault, stage))
  /\ UNCHANGED dropVars
  /\ UNCHANGED orchVars
  /\ UNCHANGED <<others, orchVault, wExit>>

NextScan ==
  \/ CallCheckNeedsAction
  \/ CheckNeedsActionIsDir
  \/ CheckNeedsActionScandir
  \/ CallCheckApprovedActions
  \/ CheckApprovedActionsIsDir
  \/ CheckApprovedActionsScandir
  \/ NeedsActionAdd
  \/ NeedsActionRemove
  \/ ApprovedAdd
  \/ ApprovedRemove
  \/ StageDirRemove
  \/ StageDirCreate

\* The two scans called in any order on a vault others work in.
SpecScan == InitSup /\ [][NextScan]_vars

(***************************************************************************)
(* The way of a dropped text file: recorded by the watcher, then found by  *)
(* the orchestrator's scan of Needs_Action.                                *)
(***************************************************************************)
\* Source files that are themselves markdown.
MarkdownNames == { <<"n", ".", "m", "d">> }

CreateMarkdown ==
  \E name \in MarkdownNames : Create(IntendedDrop(wArgv), name, FALSE, TRUE)

NextPipeline ==
  \/ WatcherMain
  \/ WatcherMkdirDrop
  \/ WatcherMkdirNeeds
  \/ WatcherRun
  \/ WatcherLoop
  \/ CreateFile
  \/ CreateMarkdown
  \/ Fill
  \/ Tick
  \/ OnCreatedBegin
  \/ OnCreatedTimestamp
  \/ OnCreatedStat
  \/ OnCreatedWrite
  \/ OnCreatedCopy
  \/ OnCreatedCopyStat
  \/ CallCheckNeedsAction
  \/ CheckNeedsActionIsDir
  \/ CheckNeedsActionScandir

\* The watcher of the default vault and the scan of its Needs_Action.
SpecPipeline == InitSup /\ [][NextPipeline]_vars

NextApprovals ==
  \/ Run
  \/ StartWatcher
  \/ RegisterSigint
  \/ RegisterSigterm
  \/ LoopTest
  \/ CheckNeedsAction
  \/ CheckApprovedActions
  \/ ProcessApprovedActions
  \/ Sleep
  \/ Shutdown
  \/ StopEnter
  \/ StopWait
  \/ StopKill
  \/ StopClear
  \/ Exit
  \/ Signal
  \/ ProcessExit
  \/ Midnight
  \/ ApprovedAdd
  \/ ApprovedRemove

\* The orchestrator run on a vault in which nothing is dropped while a human
\* fills and empties Approved.
SpecApprovals == InitOrch /\ [][NextApprovals]_vars

(***************************************************************************)
(* Properties of the drop detector.                                        *)
(***************************************************************************)
RecordFiles ==
  {f \in DOMAIN needs_action :
     needs_action[f].kind = "record" /\ needs_action[f].complete}

RecordsOf(name) ==
  {f \in RecordFiles : needs_action[f].source_file = name}

\* The watcher waits for events: none is queued or being handled.
Quiescent == wPc = "watching" /\ events = <<>> /\ hPc = "idle"

\* The regular, not hidden files that lie directly in dir.
DroppedFiles(dir) ==
  {p \in DOMAIN fs :
     p.parent = dir /\ ~fs[p].isdir /\ ~IsTemporaryOrHidden(p.name)}

\* The content of p is that of no other file dropped so far (none of which
\* has been removed).
FreshContent(p, dir) ==
  /\ Cardinality(DOMAIN fs) = nCreated
  /\ \A q \in DroppedFiles(dir) \ {p} : fs[q].content # fs[p].content

\* The completed record writes of fingerprint h.
WritesOf(h) == {i \in DOMAIN written : written[i].hash = h}

\* The fingerprints a record write has completed for.
WrittenFingerprints == {written[i].hash : i \in DOMAIN written}

\* The record files of fingerprint h: those whose last completed write was
\* made for an event of fingerprint h.
RecordFilesOf(h) ==
  {f \in RecordFiles :
     \E i \in WritesOf(h) :
       /\ written[i].name = f
       /\ \A j \in DOMAIN written : j > i => written[j].name # f}

\* No record was written under the file name of an earlier one.
NoRecordOverwritten ==
  \A i, j \in DOMAIN written : written[i].name = written[j].name => i = j

\* C1 (as claimed): within one watcher lifetime the creation events of one
\* fingerprint leave exactly one record file: once an event has passed the
\* filters and has been handled, there is one record file of its
\* fingerprint.
C1_FirstPassingEventCreatesRecord ==
  (hPc = "idle" /\ logged.kind \in {"success", "error"})
    => Cardinality(RecordFilesOf(logged.hash)) = 1

\* C1 (amended): the creation events of one fingerprint never complete more
\* than one record write, and exactly one once the fingerprint is in the
\* seen-set; a fingerprint that is not in the seen-set has a completed write
\* only while its event is still being handled, the record written and the
\* fingerprint about to be added; a record write completes only for a
\* fingerprint that is neither seen nor recorded, so every later event of
\* the fingerprint creates none; and the record files of a fingerprint are
\* as many as its completed writes unless a write into Needs_Action has
\* failed or a record was written under the file name of an earlier one.
C1_OneRecordPerSeenFingerprint ==
  /\ [](\A h \in Fingerprints :
          /\ Cardinality(WritesOf(h)) <= 1
          /\ h \in processed_files => Cardinality(WritesOf(h)) = 1
          /\ (h \notin processed_files /\ WritesOf(h) # {})
               => (hPc \in {"written", "copied"} /\ file_hash = h)
          /\ (~ioFault /\ NoRecordOverwritten)
               => Cardinality(RecordFilesOf(h)) = Cardinality(WritesOf(h)))
  /\ [][written' # written
          => /\ hPc = "statted"
             /\ file_hash \notin processed_files
             /\ WritesOf(file_hash) = {}
             /\ written' =
                  Append(written,
                         CompletedWrite(file_hash,
                                        ActionFilename(hSource.name,
                                                       hAction.timestamp)))]_vars
  /\ [][(hPc' = "idle" /\ logged' # logged
         /\ logged'.kind = "already_processed")
          => /\ needs_action' = needs_action
             /\ written' = written
             /\ processed_files' = processed_files
             /\ logged'.hash \in processed_files]_vars

\* C1 witness: a second event of a recorded fingerprint has been discarded,
\* the one record file of the fingerprint being in Needs_Action.
C1_DuplicateDiscarded ==
  /\ hPc = "idle"
  /\ logged.kind = "already_processed"
  /\ Cardinality(WritesOf(logged.hash)) = 1
  /\ Cardinality(RecordFilesOf(logged.hash)) = 1

\* C2 (as claimed): whatever the interleaving of the writers' create and
\* fill steps with the handler's steps, once the watcher has handled every
\* event, each regular, not hidden file of the watched directory whose
\* content differs from every other file's has exactly one record (no write
\* into Needs_Action having failed and no two records sharing a file name).
C2_OneRecordPerNewFile ==
  (/\ Quiescent
   /\ ~ioFault
   /\ Cardinality(RecordFiles) = Cardinality(processed_files))
    => \A p \in DroppedFiles(drop_path) :
         FreshContent(p, drop_path) => Cardinality(RecordsOf(p.name)) = 1

\* C3 (as claimed): the record files left in Needs_Action are as many as
\* the fingerprints recorded, no record being overwritten by a later one
\* (no write into Needs_Action having failed).
C3_RecordsMatchFingerprints ==
  (hPc = "idle" /\ ~ioFault)
    => Cardinality(RecordFiles) = Cardinality(processed_files)

\* C4: an event for a directory, for a hidden or temporary name or for a
\* path outside the watched directory leaves Needs_Action and the seen-set
\* as they are and starts no record creation; no file of Needs_Action stems
\* from such a path.
FilteredPath(p) ==
  \/ StartsWith(p.name, ".")
  \/ StartsWith(p.name, "~")
  \/ p.parent # drop_path

FilteredEvent(e) == e.is_directory \/ FilteredPath(e.src_path)

FilteredNames == HiddenNames \cup SubdirNames \cup DirectoryNames

C4_FilteredEventHasNoEffect ==
  /\ [](\A f \in DOMAIN needs_action :
          needs_action[f].source_file \notin FilteredNames)
  /\ [][(/\ hPc = "idle"
         /\ events # <<>>
         /\ events' = Tail(events)
         /\ FilteredEvent(Head(events)))
          => (/\ needs_action' = needs_action
              /\ processed_files' = processed_files
              /\ hPc' # "sleeping")]_vars
  /\ [][(hPc = "hashing" /\ FilteredPath(hSource))
          => (/\ needs_action' = needs_action
              /\ processed_files' = processed_files
              /\ hPc' # "sleeping")]_vars

\* C4 witness: after a record was created, the event of a hidden or temporary
\* file has been skipped.
C4_HiddenEventSkipped ==
  /\ logged.kind = "skip_hidden"
  /\ processed_files # {}
  /\ RecordFiles # {}

\* C5 (as claimed): while the watcher runs on vault V, a file of fresh
\* content dropped into V/Inbox results in exactly one record named
\* FILE_DROP_<escaped name>_<timestamp>.md with type file_drop, the source
\* name and status pending: it is there once the watcher has nothing left
\* to handle (no write into Needs_Action having failed).
IsRecordOf(f, name) ==
  /\ \E t \in 0 .. MaxClock : f = ActionFilename(name, t)
  /\ needs_action[f].type = "file_drop"
  /\ needs_action[f].source_file = name
  /\ needs_action[f].status = "pending"

C5_DropEventuallyRecorded ==
  (Quiescent /\ ~ioFault)
    => \A p \in DroppedFiles(Folder(vault_path, "Inbox")) :
         FreshContent(p, Folder(vault_path, "Inbox"))
           => Cardinality({f \in RecordFiles : IsRecordOf(f, p.name)}) = 1

\* C7 (as claimed): a watcher started with vault V as its only argument, as
\* the orchestrator starts it, watches V/Inbox and writes into
\* V/Needs_Action.
C7_DropFolderDefaultsToVaultInbox ==
  (wPc = "watching" /\ Len(wArgv) = 2)
    => /\ vault_path = wArgv[2]
       /\ drop_path = Folder(wArgv[2], "Inbox")

(***************************************************************************)
(* Properties of the orchestrator.                                         *)
(***************************************************************************)
\* The day's log before the step, empty when the file does not exist yet.
LogBefore == IF today \in DOMAIN logs THEN logs[today] ELSE <<>>

\* The step has appended to <today>.md exactly one pending_tasks_detected
\* entry whose count is the number of files the scan of this cycle found,
\* and has left every earlier entry and every other day's file as it was.
PendingAppended ==
  /\ Len(pending_tasks) > 0
  /\ today \in DOMAIN logs'
  /\ Len(logs'[today]) = Len(LogBefore) + 1
  /\ SubSeq(logs'[today], 1, Len(LogBefore)) = LogBefore
  /\ logs'[today][Len(LogBefore) + 1].action_type = "pending_tasks_detected"
  /\ logs'[today][Len(LogBefore) + 1].count = Len(pending_tasks)
  /\ \A d \in DOMAIN logs \ {today} : d \in DOMAIN logs' /\ logs'[d] = logs[d]
  /\ DOMAIN logs' = DOMAIN logs \cup {today}

\* The trigger of this cycle has run to its end.
TriggerReturns == orchPc = "trigger" /\ orchPc' = "check_approved"

\* C6 (as claimed): every cycle whose scan of Needs_Action finds n > 0
\* record files appends one pending_tasks_detected entry with count n to
\* Logs/<today>.md, whether or not the agent binary is available.  Stated
\* for the triggers that return, so that a failed log write is not counted
\* against it.
C6_EveryNonEmptyScanLogged ==
  [][TriggerReturns => PendingAppended]_vars

\* C6 (amended): a cycle whose scan finds n > 0 record files appends one
\* pending_tasks_detected entry with count n to Logs/<today>.md exactly when
\* the agent could not be spawned (binary not found, or the spawn failed)
\* and the log write succeeded; when the agent is spawned, or the log write
\* fails, the trigger leaves the logs untouched.
C6_PendingEntryOnlyInFallback ==
  [][(orchPc = "trigger" /\ orchPc' # orchPc)
       => IF lastOutcome' \in {"not_found", "spawn_error"} /\ TriggerReturns
          THEN PendingAppended
          ELSE logs' = logs]_vars

\* C6 witness: the fallback has just logged a scan that found two records.
C6_FallbackLoggedTwoTasks ==
  /\ orchPc = "check_approved"
  /\ lastOutcome \in {"not_found", "spawn_error"}
  /\ Len(pending_tasks) = 2
  /\ today \in DOMAIN logs
  /\ logs[today][Len(logs[today])].action_type = "pending_tasks_detected"
  /\ logs[today][Len(logs[today])].count = 2

\* The agent has just been spawned by the trigger of the current cycle.
JustSpawned == orchPc = "check_approved" /\ lastOutcome = "invoked"

\* C8: the step that spawns the agent goes on with the cycle while the agent
\* runs, and from there the cycle reaches its end and the next cycle starts
\* its scan (the model stops at the top of the loop after MaxCycles cycles),
\* unless a shutdown signal has arrived or a log write has raised; no agent
\* is required to terminate for that.
C8_CycleNeverWaitsForAgent ==
  /\ [][(orchPc = "trigger" /\ lastOutcome' = "invoked" /\ orchPc' # orchPc)
          => /\ orchPc' = "check_approved"
             /\ agentsRunning' = agentsRunning + 1]_vars
  /\ JustSpawned ~> \/ orchPc = "check_needs"
                    \/ orchPc = "loop" /\ cycles = MaxCycles
                    \/ ~running
                    \/ result = 1

\* C8 witness: the second cycle has started its scan while the agent spawned
\* by the first is still running.
C8_NextCycleWithAgentRunning ==
  /\ orchPc = "check_needs"
  /\ cycles = 2
  /\ agentsRunning > 0
  /\ running

\* The positions inside stop_watcher().
StopPcs == {"stop_enter", "stop_wait", "stop_kill", "stop_clear"}

\* C9 (as claimed): whenever the bounded wait has ended with the process not
\* exited, the forced kill is sent to it.
C9_KillSentAfterTimeout ==
  [][(orchPc = "stop_kill" /\ orchPc' # orchPc)
       => procs'[watcher_process].nKill
            = procs[watcher_process].nKill + 1]_vars

\* C9 (amended): stop_watcher() on a held watcher handle sends the
\* termination request to a process that is still running and waits; the
\* wait ends with the process exited, and then nothing more is sent, or
\* with a timeout, and then kill() is called, which sends the forced kill
\* unless the process has exited since; stop_watcher() always returns, with
\* the handle cleared and the process exited or sent the forced kill.
C9_StopTerminatesAndKills ==
  /\ [][(/\ orchPc = "stop_enter"
         /\ orchPc' # orchPc
         /\ watcher_process # NoProcess
         /\ procs[watcher_process].state = "running")
          => /\ orchPc' = "stop_wait"
             /\ procs'[watcher_process].nTerm
                  = procs[watcher_process].nTerm + 1]_vars
  /\ [][(orchPc = "stop_wait" /\ orchPc' # orchPc)
          => /\ procs' = procs
             /\ orchPc' = IF procs[watcher_process].state = "running"
                          THEN "stop_kill"
                          ELSE "stop_clear"]_vars
  /\ [][(orchPc = "stop_kill" /\ orchPc' # orchPc)
          => /\ orchPc' = "stop_clear"
             /\ procs'[watcher_process].nKill
                  = IF procs[watcher_process].state = "running"
                    THEN procs[watcher_process].nKill + 1
                    ELSE procs[watcher_process].nKill]_vars
  /\ [][(/\ orchPc \in StopPcs
         /\ orchPc' \notin StopPcs
         /\ watcher_process # NoProcess)
          => /\ watcher_process' = NoProcess
             /\ \/ procs'[watcher_process].state = "exited"
                \/ procs'[watcher_process].nKill >= 1]_vars
  /\ (orchPc \in StopPcs) ~> (orchPc \notin StopPcs)

\* C9 witness: stop_watcher() has returned after killing a watcher that was
\* sent the termination request and was still running when the wait ended
\* and when kill() was called.
C9_IgnoringWatcherKilled ==
  /\ orchPc = "api"
  /\ stopOutcome = "forced"
  /\ watcher_process = NoProcess
  /\ \E i \in DOMAIN procs :
       procs[i].state = "running" /\ procs[i].nTerm = 1 /\ procs[i].nKill = 1

\* C10: stop_watcher() called while no handle is held returns without
\* sending a signal and without changing the orchestrator's state, and
\* every return of stop_watcher() leaves no handle held, so that a second
\* stop_watcher() changes nothing.
C10_StopWithoutHandleIsNoop ==
  /\ [][(/\ orchPc = "stop_enter"
         /\ orchPc' # orchPc
         /\ watcher_process = NoProcess)
          => /\ orchPc' = ReturnTo("exit")
             /\ UNCHANGED <<procs, watcher_process, running, handlers,
                            agentsRunning, approved, logs, today,
                            pending_tasks, approved_actions, result,
                            exitCode, cycles, lastOutcome>>
             /\ UNCHANGED dropVars]_vars
  /\ [][(orchPc \in StopPcs /\ orchPc' \notin StopPcs)
          => watcher_process' = NoProcess]_vars

\* C10 witness: a watcher was started and stopped, and a second
\* stop_watcher() has returned as a no-op.
C10_SecondStopWasNoop ==
  /\ orchPc = "api"
  /\ stopOutcome = "noop"
  /\ watcher_process = NoProcess
  /\ \E i \in DOMAIN procs : procs[i].nTerm >= 1

\* The positions inside run_cycle().
CyclePcs == {"check_needs", "trigger", "check_approved", "process_approved"}

\* C11 (as claimed): once start_watcher() has succeeded, no run of the
\* orchestrator ends with the watcher handle still held, that is without
\* stop_watcher() having been called.
C11_EveryRunEndStopsWatcher ==
  orchPc \in {"done", "killed", "raised"} => watcher_process = NoProcess

\* C12 (as claimed): a shutdown signal received after the handlers are
\* registered changes nothing but the running flag; no cycle begins once
\* the flag is cleared; and a cycle in progress with the flag cleared goes
\* through both of its scans to its end.
C12_SignalledCycleCompletes ==
  /\ [][(running /\ ~running')
          => /\ handlers # {}
             /\ UNCHANGED <<orchPc, watcher_process, procs, agentsRunning,
                            approved, logs, pending_tasks, approved_actions,
                            result, exitCode, cycles, needs_action>>]_vars
  /\ [][cycles' # cycles => running /\ orchPc = "loop"]_vars
  /\ [][(~running /\ orchPc \in CyclePcs /\ orchPc' # orchPc)
          => orchPc' \in CyclePcs \cup {"sleep"}]_vars

\* C13 (as claimed): whatever fails while the Needs_Action stage is scanned
\* and handled, the cycle goes on to the scan of Approved, with the
\* orchestrator still running and no error result.
C13_NeedsActionFailureKeepsCycle ==
  [][(orchPc \in {"check_needs", "trigger"} /\ orchPc' # orchPc)
       => /\ orchPc' \in {"trigger", "check_approved"}
          /\ running' = running
          /\ result' = 0]_vars

\* C14 (as claimed): no exception escapes from the agent trigger into
\* run(): the loop is never left with an error while the trigger of the
\* cycle, not the logging of approved actions, was at work.
C14_FallbackNeverRaises ==
  ~(/\ orchPc = "shutdown"
    /\ lastOutcome = "orchestrator_error"
    /\ pending_tasks # <<>>
    /\ approved_actions = <<>>)

\* C16: a start_watcher() that fails (script missing, or Popen raises) makes
\* run() return 1 at once: from there the process has only its exit left,
\* with status 1, unless a signal ends it before that, with the status of
\* the signal; no handle is held, no watcher or agent process exists, no
\* cycle has begun and nothing was logged to the vault.
C16_FailedStartStopsAtOnce ==
  /\ [][(/\ orchPc = "start_watcher"
         /\ lastOutcome' \in {"no_script", "popen_error"})
          => /\ orchPc' = "exit"
             /\ result' = 1
             /\ watcher_process' = NoProcess
             /\ procs' = procs]_vars
  /\ [](lastOutcome \in {"no_script", "popen_error"}
          => /\ orchPc \in {"exit", "done", "killed"}
             /\ result = 1
             /\ orchPc = "done" => exitCode = 1
             /\ orchPc = "killed" => exitCode \in {0 - SIGINT, 0 - SIGTERM}
             /\ watcher_process = NoProcess
             /\ procs = <<>>
             /\ cycles = 0
             /\ agentsRunning = 0
             /\ logs = <<>>)
  /\ [][(/\ lastOutcome \in {"no_script", "popen_error"}
         /\ orchPc = "exit"
         /\ orchPc' # orchPc)
          => \/ orchPc' = "done" /\ exitCode' = 1
             \/ orchPc' = "killed"]_vars

\* C16 witness: run() has ended because Popen raised, and the process has
\* exited with status 1.
C16_RunEndedOnFailedStart ==
  /\ orchPc = "done"
  /\ lastOutcome = "popen_error"
  /\ result = 1
  /\ exitCode = 1

\* C19: the scan of Needs_Action is followed by the trigger exactly when it
\* found a '*.md' file, whatever agents are still running; the trigger makes
\* one spawn attempt and goes on; and no agent is spawned anywhere else.
C19_OneSpawnAttemptPerNonEmptyScan ==
  /\ [][(orchPc = "check_needs" /\ orchPc' # orchPc)
          => /\ orchPc' \in {"trigger", "check_approved"}
             /\ orchPc' = "trigger"
                  <=> \E f \in DOMAIN needs_action : MatchesMd(f)]_vars
  /\ [][(orchPc = "trigger" /\ orchPc' # orchPc)
          => /\ orchPc' \in {"check_approved", "shutdown"}
             /\ agentsRunning' \in {agentsRunning, agentsRunning + 1}]_vars
  /\ [][agentsRunning' > agentsRunning => orchPc = "trigger"]_vars

\* C19 witness: the second cycle has spawned an agent while the agent of the
\* first cycle is still running.
C19_ReinvokedWhileAgentRunning ==
  /\ cycles = 2
  /\ orchPc = "check_approved"
  /\ lastOutcome = "invoked"
  /\ agentsRunning = 2

(***************************************************************************)
(* Properties of the start of the processes and of the whole run.          *)
(***************************************************************************)
\* Nothing is created, spawned or logged by the step.
NoSideEffect ==
  UNCHANGED <<dirs, others, procs, watcher_process, agentsRunning, logs,
              needs_action, approved, fs>>

\* C15: started on a vault path that does not exist, the orchestrator and the
\* watcher each find the vault missing and have only their exit left, with
\* status 1, unless a signal ends them before that, with the status of the
\* signal; no step taken on the missing vault creates a directory, spawns
\* a process or writes a log entry, and nothing exists afterwards that did
\* not before.
C15_MissingVaultNoSideEffect ==
  /\ [][(orchPc = "main" /\ Root(orchVault) \notin dirs /\ orchPc' # orchPc)
          => /\ \/ orchPc' = "exit" /\ result' = 1
                \/ orchPc' = "killed"
             /\ NoSideEffect]_vars
  /\ [][(wPc = "main" /\ Root(MainVaultArg(wArgv)) \notin dirs /\ wPc' # wPc)
          => /\ wPc' \in {"config_error", "terminated", "interrupted"}
             /\ NoSideEffect]_vars
  /\ [][(dirs = {} /\ orchPc = "exit" /\ orchPc' # orchPc)
          => \/ orchPc' = "done" /\ exitCode' = 1
             \/ orchPc' = "killed"]_vars
  /\ [][(dirs = {} /\ wPc = "config_error" /\ wPc' # wPc)
          => \/ wPc' = "exited" /\ wExit' = 1
             \/ wPc' \in {"terminated", "interrupted"}]_vars
  /\ [][dirs = {} => NoSideEffect]_vars
  /\ [](dirs = {}
          => /\ orchPc \in {"parse_args", "parser_exit", "main", "exit",
                             "done", "killed"}
             /\ wPc \in {"main", "config_error", "exited", "terminated",
                          "interrupted"}
             /\ orchPc = "done" => exitCode = 1
             /\ orchPc = "killed" => exitCode \in {0 - SIGINT, 0 - SIGTERM}
             /\ wPc = "exited" => wExit = 1
             /\ wPc = "terminated" => wExit \in {0 - SIGTERM, 0 - SIGKILL}
             /\ wPc = "interrupted" => wExit = 0 - SIGINT
             /\ procs = <<>>
             /\ agentsRunning = 0
             /\ logs = <<>>
             /\ needs_action = <<>>)

\* C15 witness: both processes have ended on the missing vault.
C15_BothEndedOnMissingVault ==
  /\ dirs = {}
  /\ orchPc = "done"
  /\ exitCode = 1
  /\ wPc = "exited"
  /\ wExit = 1

\* The nine stage directories of a vault.
CanonicalStages ==
  {"Inbox", "Needs_Action", "Done", "Pending_Approval", "Approved",
   "Rejected", "Plans", "Logs", "Briefings"}

AllStagesPresent(existing) ==
  \A f \in CanonicalStages : Folder(orchVault, f) \in existing

\* The positions of the initialization of an Orchestrator.
InitPcs == {"init"} \cup {EnsurePcs[i] : i \in DOMAIN EnsurePcs}

\* C18: on an existing vault with any of the nine stage directories present,
\* initialization raises no error, ends with all nine present, creates
\* nothing else, leaves what existed and the files in it as they were, and
\* changes nothing at all when all nine were present already.
C18_EnsureFoldersCompleteIdempotent ==
  /\ [][(orchPc \in InitPcs /\ Root(orchVault) \in dirs /\ orchPc' # orchPc)
          => /\ orchPc' \in InitPcs \cup {"run", "constructed"}
             /\ dirs \subseteq dirs'
             /\ dirs' \ dirs
                  \subseteq {Folder(orchVault, f) : f \in CanonicalStages}
             /\ UNCHANGED <<others, needs_action, approved, logs, fs>>
             /\ AllStagesPresent(dirs) => dirs' = dirs]_vars
  /\ [][(orchPc \in InitPcs /\ orchPc' \notin InitPcs)
          => AllStagesPresent(dirs')]_vars
  /\ [](orchPc \in {"run", "constructed"} => AllStagesPresent(dirs))

\* C18 witness: a vault that had Done but not Rejected has been initialized
\* twice and has all nine directories, the old file of Done still there.
C18_InitializedTwiceFromPartialVault ==
  /\ orchPc = "constructed"
  /\ nCalls >= 1
  /\ AllStagesPresent(dirs)
  /\ others["Done"] = {OldItem}
  /\ others["Rejected"] = {}

\* The watcher process of the run has been stopped or has ended.
WatcherStopped ==
  /\ watcher_process = NoProcess
  /\ procs # <<>>
  /\ \A i \in DOMAIN procs : procs[i].state = "exited" \/ procs[i].nTerm >= 1

\* C17: the process ends with status 0 exactly when run() registered its
\* handlers, left the loop because the running flag was cleared, and stopped
\* the watcher; run() returns 0 only on that way out of the loop, and a
\* missing vault, a failed start of the watcher and an exception inside a
\* cycle each end with a status other than 0.  The exits of the argument
\* parser (0 after the help text, 2 on a usage error) come before main() has
\* a vault to run on and are no exits of a run.
C17_ExitCodeZeroIffCleanShutdown ==
  /\ [](orchPc \in {"done", "killed"}
          => (exitCode = 0
                <=> /\ orchPc = "done"
                    /\ handlers = {SIGINT, SIGTERM}
                    /\ ~running
                    /\ result = 0
                    /\ WatcherStopped))
  /\ [][(orchPc # "shutdown" /\ orchPc' = "shutdown")
          => (result' = 0 <=> (orchPc = "loop" /\ ~running))]_vars
  /\ [][(orchPc = "main" /\ Root(orchVault) \notin dirs /\ orchPc' # orchPc)
          => /\ orchPc' \in {"exit", "killed"}
             /\ orchPc' = "exit" => result' = 1
             /\ orchPc' = "killed" => exitCode' # 0]_vars
  /\ [][(orchPc = "start_watcher" /\ orchPc' # orchPc /\ procs' = procs)
          => /\ orchPc' \in {"exit", "killed"}
             /\ orchPc' = "exit" => result' = 1
             /\ orchPc' = "killed" => exitCode' # 0]_vars
  /\ [][(orchPc = "exit" /\ orchPc' # orchPc)
          => /\ orchPc' \in {"done", "killed"}
             /\ orchPc' = "done" => exitCode' = result
             /\ orchPc' = "killed" => exitCode' # 0]_vars
  /\ [][(orchPc \in CyclePcs /\ orchPc' = "shutdown") => result' = 1]_vars

\* C17 witness: the process has ended with status 0 after at least one
\* cycle, the watcher having been sent the termination request.
C17_CleanShutdownExitZero ==
  /\ orchPc = "done"
  /\ exitCode = 0
  /\ cycles >= 1
  /\ procs # <<>>
  /\ procs[1].nTerm = 1

\* C20: no step of the orchestrator, from main() to its exit, changes the
\* files of Inbox, Needs_Action, Approved, Pending_Approval, Rejected or
\* Done; a step may only create directories and append entries to the log
\* file of the current day.
C20_OrchestratorOnlyObservesStages ==
  [][(orchPc' # orchPc)
       => /\ UNCHANGED <<needs_action, approved, others, fs>>
          /\ dirs \subseteq dirs'
          /\ \A d \in DOMAIN logs :
               /\ d \in DOMAIN logs'
               /\ Len(logs'[d]) >= Len(logs[d])
               /\ SubSeq(logs'[d], 1, Len(logs[d])) = logs[d]
               /\ d # today => logs'[d] = logs[d]
          /\ DOMAIN logs' \subseteq DOMAIN logs \cup {today}]_vars

\* C20 witness: a run that created the stage directories, logged pending
\* tasks and approved actions and shut down has left the files of the
\* stages in place.
C20_RunLeftStagesInPlace ==
  /\ orchPc = "done"
  /\ exitCode = 0
  /\ FirstDay \in DOMAIN logs
  /\ Len(logs[FirstDay]) >= 2
  /\ needs_action # <<>>
  /\ approved # {}
  /\ others["Done"] = {OldItem}


\* C22 (as claimed): a failure to read or stat the source file of an event
\* never raises out of on_created, and the record built for a source that
\* is gone when _create_action_file stats it has size 0 and the current
\* time as its modification time.
C22_SourceFailureDegradesGracefully ==
  /\ [](logged.kind # "uncaught")
  /\ [][(hPc = "stamped" /\ hPc' = "statted" /\ ~Exists(fs, hSource))
          => /\ hAction'.content.file_size = 0
             /\ hAction'.content.modified = now']_vars

\* C23 (as claimed): a watcher started on an existing vault goes on
\* observing whatever events it is given: its handler is never ended by an
\* event.
C23_WatcherKeepsObserving ==
  wPc = "watching"
    => hPc \in {"idle", "hashing", "sleeping", "slept", "stamped",
                "statted", "written", "copied"}


\* C24: the handling of an event that reached the record write goes on to
\* the copy only with the complete record in Needs_Action, and ends with the
\* handler idle and a success or an error logged, success only with the
\* complete record in Needs_Action and an error only from the record write;
\* when it ends in an error the seen-set and the count of completed writes
\* are as before and the event is not put back in the queue; and an event
\* that passes the filters with a fingerprint that is not in the seen-set,
\* be it the md5 of a file that could be opened or the modification time of
\* one that could not, is processed as new, whatever failed before.
C24_FailedWriteDropsEvent ==
  /\ [][(hPc \in {"statted", "written", "copied"} /\ hPc' # hPc)
          => /\ hPc' = "written" =>
                  /\ hPc = "statted"
                  /\ logged' = logged
                  /\ processed_files' = processed_files
             /\ hPc' = "copied" =>
                  /\ hPc = "written"
                  /\ logged' = logged
                  /\ processed_files' = processed_files
             /\ hPc' \notin {"written", "copied"} =>
                  /\ hPc' = "idle"
                  /\ logged'.kind \in {"success", "error"}
                  /\ logged'.source = hSource
             /\ (hPc' \in {"written", "copied"} \/ logged'.kind = "success")
                  =>
                  /\ ActionFilename(hSource.name, hAction.timestamp)
                       \in DOMAIN needs_action'
                  /\ needs_action'[ActionFilename(hSource.name,
                                                  hAction.timestamp)].complete
             /\ (hPc' = "idle" /\ logged'.kind = "error") =>
                  /\ hPc = "statted"
             /\ logged'.kind = "error" =>
                  /\ processed_files' = processed_files
                  /\ written' = written
                  /\ events' = events]_vars
  /\ [][(/\ hPc = "idle"
         /\ events # <<>>
         /\ events' = Tail(events)
         /\ ~FilteredEvent(Head(events))
         /\ CanOpen(fs, Head(events).src_path)
         /\ Md5(fs[Head(events).src_path].content) \notin processed_files)
          => (/\ hPc' = "sleeping"
              /\ logged'.kind = "new_file"
              /\ file_hash' = Md5(fs[Head(events).src_path].content))]_vars
  /\ [][(/\ hPc = "hashing"
         /\ hPc' # hPc
         /\ Exists(fs, hSource)
         /\ ~FilteredPath(hSource))
          => (/\ \E s \in SubTicks :
                   logged'.hash = MtimeStr(fs[hSource].mtime, s)
              /\ IF logged'.hash \in processed_files
                 THEN hPc' = "idle" /\ logged'.kind = "already_processed"
                 ELSE /\ hPc' = "sleeping"
                      /\ logged'.kind = "new_file"
                      /\ file_hash' = logged'.hash)]_vars

\* C24 witness: two files were dropped and stayed empty, the record write of
\* one failed and left the seen-set empty, and the event of the other, of
\* the same fingerprint, has been recorded as new.
C24_SameContentRecordedAfterFailure ==
  /\ hPc = "idle"
  /\ events = <<>>
  /\ ioFault
  /\ logged.kind = "success"
  /\ logged.hash = Md5(0)
  /\ processed_files = {Md5(0)}
  /\ Cardinality(WritesOf(Md5(0))) = 1
  /\ nCreated = 2
  /\ Cardinality(DOMAIN fs) = 2
  /\ \A p \in DOMAIN fs : p.name \in OrdinaryNames /\ fs[p].content = 0

\* C30 (as claimed): at every point the seen-set is the set of the
\* fingerprints with a completed record write.
C30_SeenSetIsCompletedWrites == processed_files = WrittenFingerprints

\* C30 (amended): whenever the handler is not between the record write of an
\* event and the end of that event, the seen-set is the set of the
\* fingerprints with a completed record write; in between it lacks the
\* fingerprint of the event and nothing else; it changes only at the end of
\* an event whose record write has completed, by the fingerprint of that
\* event, and it never loses a fingerprint.
C30_SeenSetFollowsCompletedWrites ==
  /\ [](hPc \notin {"written", "copied"}
          => processed_files = WrittenFingerprints)
  /\ [](hPc \in {"written", "copied"}
          => /\ file_hash \notin processed_files
             /\ WrittenFingerprints = processed_files \cup {file_hash})
  /\ [][processed_files \subseteq processed_files']_vars
  /\ [][processed_files' # processed_files
          => /\ hPc \in {"written", "copied"}
             /\ hPc' = "idle"
             /\ logged'.kind = "success"
             /\ processed_files' = processed_files \cup {file_hash}
             /\ file_hash \in WrittenFingerprints
             /\ written' = written]_vars

\* C30 witness: with a fingerprint in the seen-set, the record write of an
\* event of another fingerprint has failed and has left the seen-set as it
\* was.
C30_SeenSetKeptAcrossFailure ==
  /\ hPc = "idle"
  /\ logged.kind = "error"
  /\ processed_files # {}
  /\ logged.hash \notin processed_files


\* The sequence l lists the members of S, each once.
IsListingOf(l, S) ==
  /\ Len(l) = Cardinality(S)
  /\ {l[i] : i \in DOMAIN l} = S

\* The step ends a scan of the stage: its listing of the folder has been
\* made or has failed.
EndsScan(stage) ==
  /\ orchPc = (IF stage = "Needs_Action"
               THEN "needs_scandir"
               ELSE "approved_scandir")
  /\ orchPc' = "api"

\* The step ends a scan of the stage at the is_dir() of glob.
FindsAbsent(stage) ==
  /\ orchPc = (IF stage = "Needs_Action"
               THEN "needs_is_dir"
               ELSE "approved_is_dir")
  /\ orchPc' = "api"

ApprovedMd == {f \in approved : MatchesMd(f)}

\* The step has appended to <today>.md exactly one approved_actions_ready
\* entry with the count and the items of the scan of this cycle, and has
\* left every other log file as it was.
ApprovedAppended ==
  /\ DOMAIN logs' = DOMAIN logs \cup {today}
  /\ \A d \in DOMAIN logs \ {today} : logs'[d] = logs[d]
  /\ logs'[today] =
       Append(IF today \in DOMAIN logs THEN logs[today] ELSE <<>>,
              [action_type |-> "approved_actions_ready",
               count |-> Len(approved_actions),
               items |-> approved_actions])

\* C25 (as claimed): every cycle whose scan of Approved finds n > 0 items
\* appends one approved_actions_ready entry with count n and these items to
\* the day's log.
C25_EveryApprovedScanLogged ==
  [][(orchPc = "process_approved" /\ orchPc' # orchPc) => ApprovedAppended]_vars

\* C25 (amended): in a cycle whose scan of Approved finds n > 0 items,
\* process_approved_actions is called with a listing of them; it appends
\* exactly one entry, of type approved_actions_ready, with count n and these
\* items, to the day's log and leaves every other log file as before,
\* exactly when the write to the log file succeeds; when the write fails
\* (the Logs folder is missing, or the file cannot be opened) nothing is
\* appended and run() leaves the loop with result 1; the two steps start no
\* process and leave Approved as it is, so that the next cycle finds and
\* logs the same items again.
C25_ApprovedStageOnlyLogs ==
  /\ [][(orchPc = "check_approved" /\ orchPc' # orchPc)
          => /\ approved' = approved
             /\ Len(procs') = Len(procs)
             /\ agentsRunning' = agentsRunning
             /\ logs' = logs
             /\ IsListingOf(approved_actions', ApprovedMd)
             /\ orchPc' = IF ApprovedMd # {}
                          THEN "process_approved"
                          ELSE "sleep"]_vars
  /\ [][(orchPc = "process_approved" /\ orchPc' # orchPc)
          => /\ approved' = approved
             /\ Len(procs') = Len(procs)
             /\ agentsRunning' = agentsRunning
             /\ approved_actions # <<>>
             /\ orchPc' \in {"sleep", "shutdown"}
             /\ orchPc' = "shutdown" => (logs' = logs /\ result' = 1)
             /\ orchPc' = "sleep" => (ApprovedAppended /\ result' = result)
             /\ Folder(orchVault, "Logs") \notin dirs
                  => orchPc' = "shutdown"]_vars

\* C25 witness: two approved items stayed in Approved over two cycles and
\* each cycle has logged the two of them.
C25_SameApprovalsLoggedTwice ==
  /\ orchPc = "sleep"
  /\ cycles = 2
  /\ Cardinality(ApprovedMd) = 2
  /\ today \in DOMAIN logs
  /\ Len(logs[today]) = 2
  /\ \A i \in 1 .. 2 :
       /\ logs[today][i].action_type = "approved_actions_ready"
       /\ logs[today][i].count = 2
       /\ IsListingOf(logs[today][i].items, ApprovedMd)


\* The records the two cycles of the witness of C27 find.
FirstRecord == ActionFilename(<<"a", ".", "t", "x", "t">>, 0)

SecondRecord == ActionFilename(<<"b", ".", "t", "x", "t">>, 0)

\* C27: a cycle starts with no list of its own, its scan returns a listing
\* of exactly the records that are in Needs_Action at that moment, the
\* trigger is due exactly when that listing is not empty, and the trigger
\* acts on that listing: what earlier cycles found plays no part.
C27_EachCycleReadsAfresh ==
  /\ [](orchPc \in {"loop", "check_needs"} =>
          (pending_tasks = <<>> /\ approved_actions = <<>>))
  /\ [][(orchPc = "check_needs" /\ orchPc' # orchPc)
          => /\ IsListingOf(pending_tasks',
                            {f \in DOMAIN needs_action : MatchesMd(f)})
             /\ orchPc' = IF pending_tasks' # <<>>
                          THEN "trigger"
                          ELSE "check_approved"]_vars
  /\ [][orchPc = "trigger" =>
          /\ pending_tasks' = pending_tasks
          /\ logs' # logs =>
               logs'[today][Len(logs'[today])].items = pending_tasks]_vars

\* C27 witness: the first cycle found one record and logged it; it was then
\* removed and another was added, and the second cycle's trigger is about to
\* act on the other record alone.
C27_SecondCycleSeesOnlyWhatIsThere ==
  /\ orchPc = "trigger"
  /\ cycles = 2
  /\ pending_tasks = <<SecondRecord>>
  /\ FirstRecord \notin DOMAIN needs_action
  /\ \E d \in DOMAIN logs : \E i \in DOMAIN logs[d] :
       /\ logs[d][i].action_type = "pending_tasks_detected"
       /\ logs[d][i].items = <<FirstRecord>>

\* C29: whenever the logs change, it is the day's file that changes: what it
\* held is a prefix of what it holds, exactly one entry has been added at
\* its end, the entry of the step being taken, and every other day's file is
\* as it was.
C29_LogIsAppendOnly ==
  [][logs' # logs =>
       /\ orchPc \in {"trigger", "process_approved"}
       /\ DOMAIN logs' = DOMAIN logs \cup {today}
       /\ \A d \in DOMAIN logs \ {today} : logs'[d] = logs[d]
       /\ LET old == IF today \in DOMAIN logs THEN logs[today] ELSE <<>>
              new == logs'[today]
          IN  /\ Len(new) = Len(old) + 1
              /\ SubSeq(new, 1, Len(old)) = old
              /\ new[Len(new)].action_type =
                   IF orchPc = "trigger"
                   THEN "pending_tasks_detected"
                   ELSE "approved_actions_ready"
              /\ new[Len(new)].items =
                   IF orchPc = "trigger"
                   THEN pending_tasks
                   ELSE approved_actions]_vars

\* C29 witness: two cycles have each written a pending-tasks entry and then
\* an approved-actions entry to the same day's file, which holds the four
\* in that order.
C29_FourEntriesInCycleOrder ==
  \E d \in DOMAIN logs :
    /\ Len(logs[d]) = 4
    /\ logs[d][1].action_type = "pending_tasks_detected"
    /\ logs[d][2].action_type = "approved_actions_ready"
    /\ logs[d][3].action_type = "pending_tasks_detected"
    /\ logs[d][4].action_type = "approved_actions_ready"
    /\ logs[d][1].items # logs[d][3].items


\* C21 (as claimed): a termination request takes effect between two events
\* only: the watcher is never ended while its handler is between the
\* computing of a fingerprint and the end of the record write, and, no write
\* of a record having failed, no record of Needs_Action is left partly
\* written.
C21_TerminationOnlyBetweenEvents ==
  /\ wPc = "terminated"
       => hPc \notin {"sleeping", "slept", "stamped", "statted", "written",
                    "copied"}
  /\ ~ioFault =>
       \A f \in DOMAIN needs_action :
         needs_action[f].kind = "record" => needs_action[f].complete

\* C28 (as claimed): once the watcher has nothing left to handle, a file of
\* the watched directory that has a record and whose content has since been
\* changed has a record of its present content as well.
C28_ChangedContentGetsNewRecord ==
  Quiescent =>
    \A p \in DroppedFiles(drop_path) :
      (/\ fs[p].readable
       /\ fs[p].content # 0
       /\ \E f \in RecordsOf(p.name) : needs_action[f].file_size # 0)
        => \E f \in RecordsOf(p.name) :
             needs_action[f].file_size = fs[p].content


\* C31: a run starts at most one watcher process, in start_watcher() and
\* nowhere else; the exit of the watcher changes nothing in the
\* orchestrator, whose loop and cycle steps go on as they do with a running
\* watcher; and stop_watcher() called on the handle of a watcher that has
\* exited sends no signal, has a step to take at each of its positions and
\* returns with the handle cleared.
C31_WatcherStartedOnceNeverRestarted ==
  /\ [](Len(procs) <= 1)
  /\ [](orchPc \in StopPcs
          => ENABLED (StopEnter \/ StopWait \/ StopKill \/ StopClear))
  /\ [][Len(procs') # Len(procs) => orchPc = "start_watcher"]_vars
  /\ [][(\E i \in DOMAIN procs :
           procs[i].state = "running" /\ procs'[i].state = "exited")
          => UNCHANGED <<orchPc, running, handlers, watcher_process, cycles,
                         pending_tasks, approved_actions, logs, result,
                         exitCode, agentsRunning>>]_vars
  /\ [][(orchPc = "loop" /\ orchPc' # orchPc /\ running)
          => (orchPc' = "check_needs" /\ cycles' = cycles + 1)]_vars
  /\ [][(orchPc \in CyclePcs \cup {"loop", "sleep"})
          => watcher_process' = watcher_process]_vars
  /\ [][(/\ orchPc \in StopPcs
         /\ orchPc' # orchPc
         /\ watcher_process # NoProcess
         /\ procs[watcher_process].state = "exited")
          => /\ procs' = procs
             /\ orchPc = "stop_enter" => orchPc' = "stop_wait"
             /\ orchPc = "stop_wait" => orchPc' = "stop_clear"
             /\ orchPc = "stop_kill" => orchPc' = "stop_clear"
             /\ orchPc = "stop_clear" =>
                  (orchPc' = "exit" /\ watcher_process' = NoProcess)]_vars

\* C31 witness: the watcher exited on its own before any signal was sent to
\* it, the orchestrator went through its cycles and was shut down, and the
\* final stop_watcher() has returned with the handle cleared; the run has
\* started one process.
C31_RunEndedAfterWatcherExit ==
  /\ orchPc = "done"
  /\ cycles = MaxCycles
  /\ result = 0
  /\ Len(procs) = 1
  /\ procs[1].state = "exited"
  /\ procs[1].nTerm = 0
  /\ procs[1].nKill = 0
  /\ watcher_process = NoProcess
  /\ stopOutcome = "graceful"


\* The files of Needs_Action that are records, complete or not, and those
\* that are raw copies.
RecordEntries(dir) == {f \in DOMAIN dir : dir[f].kind = "record"}

CopyEntries(dir) == {f \in DOMAIN dir : dir[f].kind = "copy"}

\* C32 (as claimed): no raw copy in Needs_Action has a name the scan
\* matches, whatever the source is called; a scan returns as many items as
\* there are record files; and, no write of a record having failed, an
\* event handled with success, its copy made or not, has its record
\* complete and its fingerprint in the seen-set and adds exactly one file to
\* what a scan returns, with the write of its record and not with its copy.
C32_EachDropOnePendingItem ==
  /\ [](\A f \in CopyEntries(needs_action) : ~MatchesMd(f))
  /\ [](\A i \in DOMAIN pending_tasks :
          pending_tasks[i] \in RecordEntries(needs_action))
  /\ [][(orchPc = "needs_scandir" /\ orchPc' = "api") =>
          Len(pending_tasks') = Cardinality(RecordEntries(needs_action))]_vars
  /\ [][(/\ hPc \in {"statted", "written", "copied"}
         /\ hPc' = "idle"
         /\ logged'.kind = "success"
         /\ ~ioFault)
          => /\ ActionFilename(hSource.name, hAction.timestamp)
                  \in RecordFiles'
             /\ file_hash \in processed_files']_vars
  /\ [][(/\ hPc = "statted"
         /\ hPc' # hPc
         /\ (hPc' = "written" \/ logged'.kind = "success")
         /\ ~ioFault)
          => Cardinality(Glob(DOMAIN needs_action'))
               = Cardinality(Glob(DOMAIN needs_action)) + 1]_vars
  /\ [][(hPc \in {"written", "copied"} /\ hPc' # hPc)
          => Glob(DOMAIN needs_action') = Glob(DOMAIN needs_action)]_vars

=============================================================================
